---- MODULE Spec2Model ----
(***************************************************************************)
(* A model of the ledger API (src/ledger_api): users own customers,        *)
(* customers carry CREDIT/DEBIT ledger entries, and the views answer       *)
(* requests scoped to the authenticated caller.                            *)
(*                                                                         *)
(* The data store is the pair (customers, entries): each a function from   *)
(* the primary keys of the rows that exist to the row.  Amounts are        *)
(* DecimalField(decimal_places=2) values, held as an integer number of     *)
(* cents, so Decimal addition and subtraction are integer addition and     *)
(* subtraction.                                                            *)
(***************************************************************************)
EXTENDS Integers, Sequences, FiniteSets, TLC

VARIABLES
    customers,       \* Customer rows: id -> [user, name, phone]
    entries,         \* LedgerEntry rows: id -> [customer, type, amount, note, entry_date]
    nextCustomerId,  \* the Customer table's auto-increment counter
    nextEntryId,     \* the LedgerEntry table's auto-increment counter
    today,           \* the date auto_now_add stamps on a new entry
    resp,            \* the response to the last completed request
    req,             \* the summary request in flight, query by query (SpecInterleaved)
    users            \* User rows: id -> [username, email, password]

vars == <<customers, entries, nextCustomerId, nextEntryId, today, resp, req, users>>

----------------------------------------------------------------------------
(* Bounds of the model. *)

MaxCustomers == 2
MaxEntries == 2

Users == {"u1", "u2"}
\* Text that is searched is a sequence of one-character strings.
\* The request bodies of a customer create or replace: name and phone (empty
\* when the optional phone is left out).  The last body has a blank name.
ValidCustomerBodies ==
    {[name |-> <<"R", "a", "h", "i", "m">>, phone |-> <<"0", "1", "7">>],
     [name |-> <<"k", "a", "r", "i", "m">>, phone |-> <<>>]}
CustomerBodies == ValidCustomerBodies \cup {[name |-> <<>>, phone |-> <<"0", "1", "7">>]}
Types == {"CREDIT", "DEBIT"}
\* The request bodies of an entry create or replace: type, amount in cents
\* (0.10 and 0.20) and note.  Every field takes two values over the valid
\* bodies; the last body carries a type that is not one of TYPE_CHOICES.
ValidEntryBodies ==
    {[type |-> "CREDIT", amount |-> 10, note |-> "rice"],
     [type |-> "CREDIT", amount |-> 20, note |-> "paid"],
     [type |-> "DEBIT", amount |-> 10, note |-> "paid"],
     [type |-> "DEBIT", amount |-> 20, note |-> "rice"]}
EntryBodies == ValidEntryBodies \cup {[type |-> "INVALID", amount |-> 10, note |-> "rice"]}

CustomerIds == 1..MaxCustomers
EntryIds == 1..MaxEntries
\* the customer field of an entry create request: an id, or 0 when the field is absent
NoId == 0
\* a customer id that is not a number (customer_id=abc): the lookup
\* Customer.objects.get(id=...) raises ValueError for it, which no handler catches
NotANumber == -1

HTTP_200_OK == 200
HTTP_201_CREATED == 201
HTTP_204_NO_CONTENT == 204
HTTP_400_BAD_REQUEST == 400
HTTP_401_UNAUTHORIZED == 401
HTTP_404_NOT_FOUND == 404
\* the answer to an exception no handler catches
HTTP_500_INTERNAL_SERVER_ERROR == 500

----------------------------------------------------------------------------
(* models.py *)

\* Sum('amount') over the rows S of the entry table es
RECURSIVE SumAmount(_, _)
SumAmount(es, S) ==
    IF S = {} THEN 0
    ELSE LET e == CHOOSE x \in S : TRUE
         IN  es[e].amount + SumAmount(es, S \ {e})

\* aggregate(Sum('amount'))['amount__sum']: NULL (None) over no rows
AggregateSum(es, S) ==
    IF S = {} THEN [isNone |-> TRUE, value |-> 0]
    ELSE [isNone |-> FALSE, value |-> SumAmount(es, S)]

\* Python's `x or 0`: 0 when x is None or a zero Decimal
OrZero(a) == IF a.isNone \/ a.value = 0 THEN 0 ELSE a.value

\* ledger_entries with the foreign-key filter lost: every row of the table
ledger_entries_AnyCustomer(es, c) == DOMAIN es

\* customer.ledger_entries.all(): the rows whose foreign key is c
ledger_entries(es, c) == {e \in DOMAIN es : es[e].customer = c}

\* the first query of get_summary
QueryTotalCredit(es, c) ==
    OrZero(AggregateSum(es, {e \in ledger_entries(es, c) : es[e].type = "CREDIT"}))

\* QueryTotalDebit with the type filter lost: every entry of the customer
QueryTotalDebit_AnyType(es, c) ==
    OrZero(AggregateSum(es, ledger_entries(es, c)))

\* the second query of get_summary
QueryTotalDebit(es, c) ==
    OrZero(AggregateSum(es, {e \in ledger_entries(es, c) : es[e].type = "DEBIT"}))

\* Customer.get_summary, both queries against one state of the store
get_summary(es, c) ==
    LET total_credit == QueryTotalCredit(es, c)
        total_debit == QueryTotalDebit(es, c)
        balance == total_credit - total_debit
    IN  [total_credit |-> total_credit,
         total_debit |-> total_debit,
         balance |-> balance]

\* LedgerEntry.Meta.ordering = ['-entry_date', '-created_at']: newest first;
\* created_at increases with the auto-increment id
Newer(es, a, b) ==
    \/ es[a].entry_date > es[b].entry_date
    \/ es[a].entry_date = es[b].entry_date /\ a > b

RECURSIVE OrderedEntries(_, _)
OrderedEntries(es, S) ==
    IF S = {} THEN <<>>
    ELSE LET first == CHOOSE a \in S : \A b \in S \ {a} : Newer(es, a, b)
         IN  <<first>> \o OrderedEntries(es, S \ {first})

----------------------------------------------------------------------------
(* serializers.py *)

\* CustomerSerializer
CustomerData(cs, c) == [id |-> c, name |-> cs[c].name, phone |-> cs[c].phone]

\* Customer.name is a CharField without blank=True: a blank name is refused
ValidCustomerInput(name) == name # <<>>

\* LedgerEntrySerializer: the parent customer is not among its fields
EntryData(es, e) ==
    [id |-> e, type |-> es[e].type, amount |-> es[e].amount,
     note |-> es[e].note, entry_date |-> es[e].entry_date]

\* LedgerEntrySerializer(many=True) over an ordered queryset
EntryList(es, S) ==
    LET ordered == OrderedEntries(es, S)
    IN  [i \in 1..Len(ordered) |-> EntryData(es, ordered[i])]

\* CustomerSummarySerializer.get_entries_count
get_entries_count(es, c) == Cardinality(ledger_entries(es, c))

\* LedgerEntry.type without choices: any text is accepted
ValidEntryInput_AnyText(type) == TRUE

\* the choices validation of LedgerEntry.type
ValidEntryInput(type) == type \in Types

----------------------------------------------------------------------------
(* views.py: querysets *)

\* CustomerViewSet.get_queryset with the filter on the user lost
CustomerQueryset_AnyUser(cs, u) == DOMAIN cs

\* CustomerViewSet.get_queryset
CustomerQueryset(cs, u) == {c \in DOMAIN cs : cs[c].user = u}

\* LedgerEntryViewSet.get_queryset with the filter on the user lost
EntryQueryset_AnyUser(cs, es, u) == DOMAIN es

\* LedgerEntryViewSet.get_queryset: customer__user joins the entry to its customer
EntryQueryset(cs, es, u) ==
    {e \in DOMAIN es : es[e].customer \in DOMAIN cs /\ cs[es[e].customer].user = u}

\* Customer.objects.get(id=customer_id, user=request.user) finds a row
OwnedCustomer(cs, u, c) == c \in DOMAIN cs /\ cs[c].user = u

NoResponse == [op |-> "none", caller |-> "", status |-> 0]

\* the User rows of the callers of the customer and entry operations
RegisteredUsers ==
    (1 :> [username |-> "u1", email |-> "a@example.com",
           password |-> [algorithm |-> "pbkdf2_sha256", hash |-> "secret-1"]])
    @@ (2 :> [username |-> "u2", email |-> "b@example.com",
              password |-> [algorithm |-> "pbkdf2_sha256", hash |-> "secret-1"]])
Idle == [pc |-> "idle"]

Init ==
    /\ customers = <<>>
    /\ entries = <<>>
    /\ nextCustomerId = 1
    /\ nextEntryId = 1
    /\ today = 1
    /\ resp = NoResponse
    /\ req = Idle
    /\ users = RegisteredUsers

----------------------------------------------------------------------------
(* Responses.  Every handler's response is a function of the store it     *)
(* reads, the caller and the request's arguments.                          *)

Response(op, u, arg, status, body) ==
    [op |-> op, caller |-> u, arg |-> arg, status |-> status, body |-> body]

\* the body of the server error page
ServerErrorBody == [detail |-> "Server Error (500)"]

\* the body of the framework's Http404
NotFoundBody == [detail |-> "Not found."]

\* Customer.Meta.ordering = ['-created_at']: newest first
RECURSIVE CustomerList(_, _)
CustomerList(cs, S) ==
    IF S = {} THEN <<>>
    ELSE LET first == CHOOSE a \in S : \A b \in S : a >= b
         IN  <<CustomerData(cs, first)>> \o CustomerList(cs, S \ {first})

----------------------------------------------------------------------------
(* views.py: CustomerViewSet *)

\* GET /customers/
Customer_list_response(cs, u) ==
    Response("customer_list", u, NoId, HTTP_200_OK, CustomerList(cs, CustomerQueryset(cs, u)))

Customer_list(u) ==
    /\ resp' = Customer_list_response(customers, u)
    /\ UNCHANGED <<customers, entries, nextCustomerId, nextEntryId, today, req, users>>

\* the body of a failed validation of the name
BlankNameBody == [name |-> "This field may not be blank."]

\* POST /customers/: perform_create saves the row with user=request.user
Customer_create(u, name, phone) ==
    /\ nextCustomerId <= MaxCustomers
    /\ IF ValidCustomerInput(name)
       THEN /\ customers' = customers @@
                    (nextCustomerId :> [user |-> u, name |-> name, phone |-> phone])
            /\ nextCustomerId' = nextCustomerId + 1
            /\ resp' = Response("customer_create", u, NoId, HTTP_201_CREATED,
                                [id |-> nextCustomerId, name |-> name, phone |-> phone])
       ELSE /\ resp' = Response("customer_create", u, NoId, HTTP_400_BAD_REQUEST,
                                BlankNameBody)
            /\ UNCHANGED <<customers, nextCustomerId>>
    /\ UNCHANGED <<entries, nextEntryId, today, req, users>>

\* GET /customers/{id}/: get_object looks the id up in get_queryset
Customer_retrieve_response(cs, u, c) ==
    IF c \in CustomerQueryset(cs, u)
    THEN Response("customer_retrieve", u, c, HTTP_200_OK, CustomerData(cs, c))
    ELSE Response("customer_retrieve", u, c, HTTP_404_NOT_FOUND, NotFoundBody)

Customer_retrieve(u, c) ==
    /\ resp' = Customer_retrieve_response(customers, u, c)
    /\ UNCHANGED <<customers, entries, nextCustomerId, nextEntryId, today, req, users>>

\* PUT /customers/{id}/: get_object first, then validation, then save
Customer_update_response(cs, u, c, name, phone) ==
    IF c \notin CustomerQueryset(cs, u)
    THEN Response("customer_update", u, c, HTTP_404_NOT_FOUND, NotFoundBody)
    ELSE IF ~ValidCustomerInput(name)
    THEN Response("customer_update", u, c, HTTP_400_BAD_REQUEST, BlankNameBody)
    ELSE Response("customer_update", u, c, HTTP_200_OK,
                  [id |-> c, name |-> name, phone |-> phone])

Customer_update(u, c, name, phone) ==
    /\ resp' = Customer_update_response(customers, u, c, name, phone)
    /\ customers' = IF c \in CustomerQueryset(customers, u) /\ ValidCustomerInput(name)
                    THEN [customers EXCEPT ![c].name = name, ![c].phone = phone]
                    ELSE customers
    /\ UNCHANGED <<entries, nextCustomerId, nextEntryId, today, req, users>>

\* DELETE /customers/{id}/: on_delete=CASCADE removes the customer's entries
Customer_destroy_response(cs, u, c) ==
    IF c \in CustomerQueryset(cs, u)
    THEN Response("customer_destroy", u, c, HTTP_204_NO_CONTENT, <<>>)
    ELSE Response("customer_destroy", u, c, HTTP_404_NOT_FOUND, NotFoundBody)

\* the delete with on_delete=CASCADE lost: the customer's entries stay
Customer_destroy_NoCascade(u, c) ==
    /\ resp' = Customer_destroy_response(customers, u, c)
    /\ customers' = IF c \in CustomerQueryset(customers, u)
                    THEN [k \in DOMAIN customers \ {c} |-> customers[k]]
                    ELSE customers
    /\ UNCHANGED <<entries, nextCustomerId, nextEntryId, today, req, users>>

Customer_destroy(u, c) ==
    /\ resp' = Customer_destroy_response(customers, u, c)
    /\ IF c \in CustomerQueryset(customers, u)
       THEN /\ customers' = [k \in DOMAIN customers \ {c} |-> customers[k]]
            /\ entries' = [e \in DOMAIN entries \ ledger_entries(entries, c) |-> entries[e]]
       ELSE UNCHANGED <<customers, entries>>
    /\ UNCHANGED <<nextCustomerId, nextEntryId, today, req, users>>

\* str.strip(): leading and trailing spaces removed
RECURSIVE StripLeft(_)
StripLeft(q) == IF q # <<>> /\ Head(q) = " " THEN StripLeft(Tail(q)) ELSE q

RECURSIVE StripRight(_)
StripRight(q) ==
    IF q # <<>> /\ q[Len(q)] = " " THEN StripRight(SubSeq(q, 1, Len(q) - 1)) ELSE q

strip(q) == StripRight(StripLeft(q))

UpperCase == <<"A", "B", "C", "D", "E", "F", "G", "H", "I", "J", "K", "L", "M",
               "N", "O", "P", "Q", "R", "S", "T", "U", "V", "W", "X", "Y", "Z">>
LowerCase == <<"a", "b", "c", "d", "e", "f", "g", "h", "i", "j", "k", "l", "m",
               "n", "o", "p", "q", "r", "s", "t", "u", "v", "w", "x", "y", "z">>

\* a character with its case folded
Fold(ch) ==
    IF \E i \in 1..Len(UpperCase) : UpperCase[i] = ch
    THEN LowerCase[CHOOSE i \in 1..Len(UpperCase) : UpperCase[i] = ch]
    ELSE ch

\* the search matching the case of the letters
contains(text, query) ==
    \E start \in 1..(Len(text) - Len(query) + 1) :
        \A i \in 1..Len(query) : text[start + i - 1] = query[i]

\* field__icontains=query: query occurs in text, whatever the case
icontains(text, query) ==
    \E start \in 1..(Len(text) - Len(query) + 1) :
        \A i \in 1..Len(query) : Fold(text[start + i - 1]) = Fold(query[i])

\* the length check of search refusing the empty query alone
TooShort_EmptyOnly(query) == query = <<>>

\* not query or len(query) < 2
TooShort(query) == query = <<>> \/ Len(query) < 2

\* GET /customers/search/?q=
search_response(cs, u, q) ==
    LET query == strip(q)
    IN  IF TooShort(query)
        THEN Response("search", u, q, HTTP_400_BAD_REQUEST,
                      [error |-> "At least 2 characters required for search"])
        ELSE Response("search", u, q, HTTP_200_OK,
                      CustomerList(cs, {c \in CustomerQueryset(cs, u) :
                                          \/ icontains(cs[c].name, query)
                                          \/ icontains(cs[c].phone, query)}))

search(u, q) ==
    /\ resp' = search_response(customers, u, q)
    /\ UNCHANGED <<customers, entries, nextCustomerId, nextEntryId, today, req, users>>

\* the values a client sends as q
SearchQueries ==
    {<<>>, <<"a">>, <<" ", "i", " ">>, <<"R", "A">>, <<"1", "7">>, <<"z", "z">>,
     <<"i", "m", " ">>}

\* CustomerSummarySerializer over one state of the store: the fields it adds
\* to the customer's own
SummaryData(cs, es, c) ==
    [id |-> c, name |-> cs[c].name, phone |-> cs[c].phone,
     total_credit |-> get_summary(es, c).total_credit,
     total_debit |-> get_summary(es, c).total_debit,
     balance |-> get_summary(es, c).balance,
     entries_count |-> get_entries_count(es, c)]

\* GET /customers/{id}/summary/
summary_response(cs, es, u, c) ==
    IF c \in CustomerQueryset(cs, u)
    THEN Response("summary", u, c, HTTP_200_OK, SummaryData(cs, es, c))
    ELSE Response("summary", u, c, HTTP_404_NOT_FOUND, NotFoundBody)

summary(u, c) ==
    /\ resp' = summary_response(customers, entries, u, c)
    /\ UNCHANGED <<customers, entries, nextCustomerId, nextEntryId, today, req, users>>

----------------------------------------------------------------------------
(* views.py: LedgerEntryViewSet *)

\* GET /ledger-entries/
LedgerEntry_list_response(cs, es, u) ==
    Response("entry_list", u, NoId, HTTP_200_OK, EntryList(es, EntryQueryset(cs, es, u)))

LedgerEntry_list(u) ==
    /\ resp' = LedgerEntry_list_response(customers, entries, u)
    /\ UNCHANGED <<customers, entries, nextCustomerId, nextEntryId, today, req, users>>

\* perform_create looking the customer up by id alone
perform_create_saves_AnyUser(cs, u, c) == c \in DOMAIN cs

\* perform_create reaches serializer.save(customer=customer): the lookup
\* Customer.objects.get(id=customer_id, user=request.user) found a row.
\* Otherwise it returns a Response the caller, CreateModelMixin.create, drops.
perform_create_saves(cs, u, c) == OwnedCustomer(cs, u, c)

\* serializer.data after perform_create: the saved instance when there is
\* one, else the validated input (type, amount, note) with no id and no date
LedgerEntry_create_response(cs, u, c, type, amount, note, newId, date) ==
    IF ~ValidEntryInput(type)
    THEN Response("entry_create", u, c, HTTP_400_BAD_REQUEST,
                  [type |-> "is not a valid choice."])
    ELSE IF c = NotANumber
    THEN Response("entry_create", u, c, HTTP_500_INTERNAL_SERVER_ERROR, ServerErrorBody)
    ELSE IF perform_create_saves(cs, u, c)
    THEN Response("entry_create", u, c, HTTP_201_CREATED,
                  [id |-> newId, type |-> type, amount |-> amount, note |-> note,
                   entry_date |-> date])
    ELSE Response("entry_create", u, c, HTTP_201_CREATED,
                  [type |-> type, amount |-> amount, note |-> note])

\* POST /ledger-entries/
LedgerEntry_create(u, c, type, amount, note) ==
    /\ nextEntryId <= MaxEntries
    /\ resp' = LedgerEntry_create_response(customers, u, c, type, amount, note,
                                           nextEntryId, today)
    /\ IF ValidEntryInput(type) /\ perform_create_saves(customers, u, c)
       THEN /\ entries' = entries @@ (nextEntryId :>
                              [customer |-> c, type |-> type, amount |-> amount,
                               note |-> note, entry_date |-> today])
            /\ nextEntryId' = nextEntryId + 1
       ELSE UNCHANGED <<entries, nextEntryId>>
    /\ UNCHANGED <<customers, nextCustomerId, today, req, users>>

\* GET /ledger-entries/{id}/
LedgerEntry_retrieve_response(cs, es, u, e) ==
    IF e \in EntryQueryset(cs, es, u)
    THEN Response("entry_retrieve", u, e, HTTP_200_OK, EntryData(es, e))
    ELSE Response("entry_retrieve", u, e, HTTP_404_NOT_FOUND, NotFoundBody)

LedgerEntry_retrieve(u, e) ==
    /\ resp' = LedgerEntry_retrieve_response(customers, entries, u, e)
    /\ UNCHANGED <<customers, entries, nextCustomerId, nextEntryId, today, req, users>>

\* the row a PUT writes: type, amount and note are the serializer's writable fields
UpdatedEntry(row, type, amount, note) ==
    [row EXCEPT !.type = type, !.amount = amount, !.note = note]

\* PUT /ledger-entries/{id}/: get_object first, then validation, then save
LedgerEntry_update_response(cs, es, u, e, type, amount, note) ==
    IF e \notin EntryQueryset(cs, es, u)
    THEN Response("entry_update", u, e, HTTP_404_NOT_FOUND, NotFoundBody)
    ELSE IF ~ValidEntryInput(type)
    THEN Response("entry_update", u, e, HTTP_400_BAD_REQUEST,
                  [type |-> "is not a valid choice."])
    ELSE Response("entry_update", u, e, HTTP_200_OK,
                  [id |-> e, type |-> type, amount |-> amount, note |-> note,
                   entry_date |-> es[e].entry_date])

LedgerEntry_update(u, e, type, amount, note) ==
    /\ resp' = LedgerEntry_update_response(customers, entries, u, e, type, amount, note)
    /\ entries' = IF e \in EntryQueryset(customers, entries, u) /\ ValidEntryInput(type)
                  THEN [entries EXCEPT ![e] = UpdatedEntry(entries[e], type, amount, note)]
                  ELSE entries
    /\ UNCHANGED <<customers, nextCustomerId, nextEntryId, today, req, users>>

\* DELETE /ledger-entries/{id}/
LedgerEntry_destroy_response(cs, es, u, e) ==
    IF e \in EntryQueryset(cs, es, u)
    THEN Response("entry_destroy", u, e, HTTP_204_NO_CONTENT, <<>>)
    ELSE Response("entry_destroy", u, e, HTTP_404_NOT_FOUND, NotFoundBody)

LedgerEntry_destroy(u, e) ==
    /\ resp' = LedgerEntry_destroy_response(customers, entries, u, e)
    /\ entries' = IF e \in EntryQueryset(customers, entries, u)
                  THEN [k \in DOMAIN entries \ {e} |-> entries[k]]
                  ELSE entries
    /\ UNCHANGED <<customers, nextCustomerId, nextEntryId, today, req, users>>

\* by_customer telling a customer of another user (403) from no customer (404)
by_customer_response_Forbidden(cs, es, u, c) ==
    IF c = NoId
    THEN Response("by_customer", u, c, HTTP_400_BAD_REQUEST, [error |-> "customer_id Needed"])
    ELSE IF c \in DOMAIN cs /\ cs[c].user # u
    THEN Response("by_customer", u, c, 403, [error |-> "Forbidden"])
    ELSE IF c \notin DOMAIN cs
    THEN Response("by_customer", u, c, HTTP_404_NOT_FOUND, [error |-> "Customer not found"])
    ELSE Response("by_customer", u, c, HTTP_200_OK,
                  [customer |-> [id |-> c, name |-> cs[c].name],
                   entries |-> EntryList(es, ledger_entries(es, c)),
                   summary |-> get_summary(es, c)])

\* GET /ledger-entries/by_customer/?customer_id=
by_customer_response(cs, es, u, c) ==
    IF c = NoId
    THEN Response("by_customer", u, c, HTTP_400_BAD_REQUEST, [error |-> "customer_id Needed"])
    ELSE IF c = NotANumber
    THEN Response("by_customer", u, c, HTTP_500_INTERNAL_SERVER_ERROR, ServerErrorBody)
    ELSE IF ~OwnedCustomer(cs, u, c)
    THEN Response("by_customer", u, c, HTTP_404_NOT_FOUND, [error |-> "Customer not found"])
    ELSE Response("by_customer", u, c, HTTP_200_OK,
                  [customer |-> [id |-> c, name |-> cs[c].name],
                   entries |-> EntryList(es, ledger_entries(es, c)),
                   summary |-> get_summary(es, c)])

by_customer(u, c) ==
    /\ resp' = by_customer_response(customers, entries, u, c)
    /\ UNCHANGED <<customers, entries, nextCustomerId, nextEntryId, today, req, users>>

----------------------------------------------------------------------------
(* Python's float, which statistics converts every Decimal to: an IEEE 754 *)
(* binary64 number, a sign and a magnitude of at most 53 significant bits. *)
(* The magnitude is held exactly, as a natural number counted in units of  *)
(* 2^-61 and written as four base-2^20 digits, least significant first.    *)
(* Every number the model meets (a sum of amounts of at least one cent and *)
(* far below 2^19) is a multiple of that unit.                             *)

Base == 2^20

BigZero == <<0, 0, 0, 0>>

\* the digits of n, for 0 <= n < 2^31
Small(n) == <<n % Base, n \div Base, 0, 0>>

\* the digits of 2^d
Pow2Big(d) == [i \in 1..4 |-> IF i = (d \div 20) + 1 THEN 2^(d % 20) ELSE 0]

BigAdd(a, b) ==
    LET s1 == a[1] + b[1]
        s2 == a[2] + b[2] + (s1 \div Base)
        s3 == a[3] + b[3] + (s2 \div Base)
        s4 == a[4] + b[4] + (s3 \div Base)
    IN  <<s1 % Base, s2 % Base, s3 % Base, s4>>

\* a - b, for a >= b
BigSub(a, b) ==
    LET d1 == a[1] - b[1]
        d2 == a[2] - b[2] - (IF d1 < 0 THEN 1 ELSE 0)
        d3 == a[3] - b[3] - (IF d2 < 0 THEN 1 ELSE 0)
        d4 == a[4] - b[4] - (IF d3 < 0 THEN 1 ELSE 0)
    IN  <<d1 % Base, d2 % Base, d3 % Base, d4>>

BigLess(a, b) ==
    \/ a[4] < b[4]
    \/ a[4] = b[4] /\ a[3] < b[3]
    \/ a[4] = b[4] /\ a[3] = b[3] /\ a[2] < b[2]
    \/ a[4] = b[4] /\ a[3] = b[3] /\ a[2] = b[2] /\ a[1] < b[1]

\* the number of bits of a digit
RECURSIVE Bits(_)
Bits(n) == IF n = 0 THEN 0 ELSE 1 + Bits(n \div 2)

BitLength(a) ==
    IF a[4] > 0 THEN 60 + Bits(a[4])
    ELSE IF a[3] > 0 THEN 40 + Bits(a[3])
    ELSE IF a[2] > 0 THEN 20 + Bits(a[2])
    ELSE Bits(a[1])

\* bit i of a
Bit(a, i) == (a[(i \div 20) + 1] \div 2^(i % 20)) % 2

\* a mod 2^d, for d <= 30
LowBits(a, d) ==
    IF d <= 20 THEN a[1] % 2^d ELSE a[1] + (a[2] % 2^(d - 20)) * Base

\* Round to nearest, ties to even, at 53 significant bits.  sticky: the
\* exact value lies strictly above a, by less than one unit.
Round53(a, sticky) ==
    LET d == BitLength(a) - 53
    IN  IF d <= 0 THEN a
        ELSE LET r == LowBits(a, d)
                 half == 2^(d - 1)
                 up == r > half \/ (r = half /\ (sticky \/ Bit(a, d) = 1))
                 truncated == BigSub(a, Small(r))
             IN  IF up THEN BigAdd(truncated, Pow2Big(d)) ELSE truncated

\* quotient and remainder of a by 100, digit by digit from the top
DivBy100(a) ==
    LET c4 == a[4]
        c3 == (c4 % 100) * Base + a[3]
        c2 == (c3 % 100) * Base + a[2]
        c1 == (c2 % 100) * Base + a[1]
    IN  [quot |-> <<c1 \div 100, c2 \div 100, c3 \div 100, c4 \div 100>>,
         rem |-> c1 % 100]

\* float(d) of a Decimal d of that many cents: the binary64 nearest to
\* cents/100.  cents * 2^61 / 100 is (2 * cents) in the top digit, over 100.
float(cents) ==
    LET m == IF cents < 0 THEN -cents ELSE cents
        d == DivBy100(<<0, 0, 0, 2 * m>>)
    IN  [neg |-> cents < 0, mag |-> Round53(d.quot, d.rem # 0)]

\* x + y on floats: the exact sum, rounded
FloatAdd(x, y) ==
    IF x.neg = y.neg
    THEN [neg |-> x.neg, mag |-> Round53(BigAdd(x.mag, y.mag), FALSE)]
    ELSE IF x.mag = y.mag
    THEN [neg |-> FALSE, mag |-> BigZero]
    ELSE IF BigLess(x.mag, y.mag)
    THEN [neg |-> y.neg, mag |-> Round53(BigSub(y.mag, x.mag), FALSE)]
    ELSE [neg |-> x.neg, mag |-> Round53(BigSub(x.mag, y.mag), FALSE)]

----------------------------------------------------------------------------
(* views.py: LedgerEntryViewSet, the filters and the statistics *)

\* A date query parameter: absent (None), the empty string, a YYYY-MM-DD
\* string naming a day, or another string; strptime rejects the empty string
\* and the other strings with ValueError
NoDate == [kind |-> "absent"]
EmptyDate == [kind |-> "empty"]
DateParam(day) == [kind |-> "date", day |-> day]
MalformedDate == [kind |-> "malformed"]

\* GET /ledger-entries/filter_by_date/?customer_id=&start_date=&end_date=
\* a date check that lets through every string that names no day
Truthy_OnlyDates(date) == date.kind = "date"

\* `if start_date:` holds of a string that is not empty
Truthy(date) == date.kind \in {"date", "malformed"}

\* datetime.strptime(date, '%Y-%m-%d') raises ValueError
strptime_ValueError(date) == date.kind # "date"

\* the date filters with entry_date__gt and entry_date__lt in place of
\* entry_date__gte and entry_date__lte
filter_by_date_entries_Exclusive(es, c, start_date, end_date) ==
    {e \in DOMAIN es :
        /\ es[e].customer = c
        /\ start_date.kind = "date" => es[e].entry_date > start_date.day
        /\ end_date.kind = "date" => es[e].entry_date < end_date.day}

\* the entries left by entry_date__gte=start and entry_date__lte=end, each
\* applied when its parameter is given
filter_by_date_entries(es, c, start_date, end_date) ==
    {e \in ledger_entries(es, c) :
        /\ (Truthy(start_date) /\ ~strptime_ValueError(start_date))
              => es[e].entry_date >= start_date.day
        /\ (Truthy(end_date) /\ ~strptime_ValueError(end_date))
              => es[e].entry_date <= end_date.day}

filter_by_date_response(cs, es, u, c, start_date, end_date) ==
    IF c = NoId
    THEN Response("filter_by_date", u, c, HTTP_400_BAD_REQUEST,
                  [error |-> "customer_id Needed"])
    ELSE IF c = NotANumber
    THEN Response("filter_by_date", u, c, HTTP_500_INTERNAL_SERVER_ERROR, ServerErrorBody)
    ELSE IF ~OwnedCustomer(cs, u, c)
    THEN Response("filter_by_date", u, c, HTTP_404_NOT_FOUND,
                  [error |-> "Customer not found"])
    ELSE IF Truthy(start_date) /\ strptime_ValueError(start_date)
    THEN Response("filter_by_date", u, c, HTTP_400_BAD_REQUEST,
                  [error |-> "Invalid start date format (YYYY-MM-DD expected)"])
    ELSE IF Truthy(end_date) /\ strptime_ValueError(end_date)
    THEN Response("filter_by_date", u, c, HTTP_400_BAD_REQUEST,
                  [error |-> "Invalid end date format (YYYY-MM-DD expected)"])
    ELSE LET found == filter_by_date_entries(es, c, start_date, end_date)
         IN  Response("filter_by_date", u, c, HTTP_200_OK,
                      [customer |-> [id |-> c, name |-> cs[c].name],
                       date_range |-> [start |-> start_date, end |-> end_date],
                       entries |-> EntryList(es, found),
                       total_entries |-> Cardinality(found)])

filter_by_date(u, c, start_date, end_date) ==
    /\ resp' = filter_by_date_response(customers, entries, u, c, start_date, end_date)
    /\ UNCHANGED <<customers, entries, nextCustomerId, nextEntryId, today, req, users>>

\* sum(float(entry.amount) for entry in entries): from the int 0, in the
\* queryset's order
RECURSIVE FloatSum(_, _, _)
FloatSum(es, ordered, i) ==
    IF i = 0 THEN float(0)
    ELSE FloatAdd(FloatSum(es, ordered, i - 1), float(es[ordered[i]].amount))

\* the check of type with the membership test lost
InvalidTypeParam_EmptyOnly(entry_type) == entry_type = ""

\* not entry_type or entry_type not in ['CREDIT', 'DEBIT']
InvalidTypeParam(entry_type) == entry_type = "" \/ entry_type \notin {"CREDIT", "DEBIT"}

\* GET /ledger-entries/filter_by_type/?customer_id=&type=
filter_by_type_response(cs, es, u, c, entry_type) ==
    IF c = NoId
    THEN Response("filter_by_type", u, c, HTTP_400_BAD_REQUEST,
                  [error |-> "customer_id Needed"])
    ELSE IF InvalidTypeParam(entry_type)
    THEN Response("filter_by_type", u, c, HTTP_400_BAD_REQUEST,
                  [error |-> "type must be CREDIT or DEBIT"])
    ELSE IF c = NotANumber
    THEN Response("filter_by_type", u, c, HTTP_500_INTERNAL_SERVER_ERROR, ServerErrorBody)
    ELSE IF ~OwnedCustomer(cs, u, c)
    THEN Response("filter_by_type", u, c, HTTP_404_NOT_FOUND,
                  [error |-> "Customer not found"])
    ELSE LET found == {e \in ledger_entries(es, c) : es[e].type = entry_type}
             ordered == OrderedEntries(es, found)
         IN  Response("filter_by_type", u, c, HTTP_200_OK,
                      [customer |-> [id |-> c, name |-> cs[c].name],
                       type |-> entry_type,
                       entries |-> EntryList(es, found),
                       total_amount |-> FloatSum(es, ordered, Len(ordered)),
                       entries_count |-> Cardinality(found)])

filter_by_type(u, c, entry_type) ==
    /\ resp' = filter_by_type_response(customers, entries, u, c, entry_type)
    /\ UNCHANGED <<customers, entries, nextCustomerId, nextEntryId, today, req, users>>

\* the customers of Customer.objects.filter(user=request.user), in the
\* order of Customer.Meta.ordering: newest first
RECURSIVE OrderedCustomers(_)
OrderedCustomers(S) ==
    IF S = {} THEN <<>>
    ELSE LET first == CHOOSE a \in S : \A b \in S : a >= b
         IN  <<first>> \o OrderedCustomers(S \ {first})

\* the loop of statistics over the first i customers of `ordered`
RECURSIVE statistics_loop(_, _, _)
statistics_loop(es, ordered, i) ==
    IF i = 0
    THEN [total_credit |-> float(0), total_debit |-> float(0),
          total_balance |-> float(0), total_entries |-> 0]
    ELSE LET stats == statistics_loop(es, ordered, i - 1)
             customer == ordered[i]
             summ == get_summary(es, customer)
         IN  [total_credit |-> FloatAdd(stats.total_credit, float(summ.total_credit)),
              total_debit |-> FloatAdd(stats.total_debit, float(summ.total_debit)),
              total_balance |-> FloatAdd(stats.total_balance, float(summ.balance)),
              total_entries |-> stats.total_entries + get_entries_count(es, customer)]

\* GET /ledger-entries/statistics/
statistics_response(cs, es, u) ==
    LET owned == {c \in DOMAIN cs : cs[c].user = u}
        ordered == OrderedCustomers(owned)
        stats == statistics_loop(es, ordered, Len(ordered))
    IN  Response("statistics", u, NoId, HTTP_200_OK,
                 [total_customers |-> Cardinality(owned),
                  total_credit |-> stats.total_credit,
                  total_debit |-> stats.total_debit,
                  total_balance |-> stats.total_balance,
                  total_entries |-> stats.total_entries])

statistics(u) ==
    /\ resp' = statistics_response(customers, entries, u)
    /\ UNCHANGED <<customers, entries, nextCustomerId, nextEntryId, today, req, users>>

\* the request.user of a request that carries no valid bearer credential
AnonymousUser == "anonymous"

\* the operations of the two viewsets
Operations ==
    {"customer_list", "customer_create", "customer_retrieve", "customer_update",
     "customer_destroy", "search", "summary", "entry_list", "entry_create",
     "entry_retrieve", "entry_update", "entry_destroy", "by_customer",
     "filter_by_date", "filter_by_type", "statistics"}

\* permission_denied answering 403, as it does when the authentication scheme
\* names no WWW-Authenticate header
permission_denied_response_Forbidden(op) ==
    Response(op, AnonymousUser, NoId, 403,
             [detail |-> "Authentication credentials were not provided."])

\* permission_classes = [IsAuthenticated]: the permission check that precedes
\* every handler of both viewsets refuses a request without a credential
permission_denied_response(op) ==
    Response(op, AnonymousUser, NoId, HTTP_401_UNAUTHORIZED,
             [detail |-> "Authentication credentials were not provided."])

\* a request without a valid credential: the handler is never entered
permission_denied(op) ==
    /\ resp' = permission_denied_response(op)
    /\ UNCHANGED <<customers, entries, nextCustomerId, nextEntryId, today, req, users>>

\* the values a client sends as query parameters
DateParams == {NoDate, EmptyDate, MalformedDate} \cup {DateParam(d) : d \in 1..2}
\* the values of type: "" stands for a parameter that is absent or empty
TypeParams == {"CREDIT", "DEBIT", "INVALID", "credit", ""}
\* the values of customer_id
CustomerIdParams == CustomerIds \cup {NoId, NotANumber}

----------------------------------------------------------------------------
(* The serial specification: requests are handled one at a time, each to   *)
(* completion.                                                             *)

Next ==
    \/ \E u \in Users : Customer_list(u)
    \/ \E u \in Users, b \in CustomerBodies : Customer_create(u, b.name, b.phone)
    \/ \E u \in Users, c \in CustomerIds : Customer_retrieve(u, c)
    \/ \E u \in Users, c \in CustomerIds, b \in CustomerBodies :
          Customer_update(u, c, b.name, b.phone)
    \/ \E u \in Users, q \in SearchQueries : search(u, q)
    \/ \E u \in Users, c \in CustomerIds : Customer_destroy(u, c)
    \/ \E u \in Users, c \in CustomerIds : summary(u, c)
    \/ \E u \in Users : LedgerEntry_list(u)
    \/ \E u \in Users, c \in CustomerIdParams, d \in EntryBodies :
          LedgerEntry_create(u, c, d.type, d.amount, d.note)
    \/ \E u \in Users, e \in EntryIds : LedgerEntry_retrieve(u, e)
    \/ \E u \in Users, e \in EntryIds, d \in EntryBodies :
          LedgerEntry_update(u, e, d.type, d.amount, d.note)
    \/ \E u \in Users, e \in EntryIds : LedgerEntry_destroy(u, e)
    \/ \E u \in Users, c \in CustomerIdParams : by_customer(u, c)
    \/ \E u \in Users : statistics(u)
    \/ \E op \in Operations : permission_denied(op)

Spec == Init /\ [][Next]_vars

----------------------------------------------------------------------------
(* The summary and by_customer requests, query by query.  The views open   *)
(* no transaction: each queryset evaluation is a statement of its own, and *)
(* the writes of other requests may commit between two of them.            *)

\* summary: self.get_object()
summary_get_object(u, c) ==
    /\ req.pc = "idle"
    /\ IF c \in CustomerQueryset(customers, u)
       THEN /\ req' = [pc |-> "total_credit", query |-> "credit", caller |-> u,
                       customer |-> c, name |-> customers[c].name,
                       phone |-> customers[c].phone, credit |-> 0,
                       total_credit |-> 0, total_debit |-> 0, balance |-> 0]
            /\ UNCHANGED resp
       ELSE /\ resp' = Response("summary", u, c, HTTP_404_NOT_FOUND, NotFoundBody)
            /\ UNCHANGED req
    /\ UNCHANGED <<customers, entries, nextCustomerId, nextEntryId, today, users>>

\* the serializer method that follows get_<field>, in the order of Meta.fields
NextField(field) ==
    CASE field = "total_credit" -> "total_debit"
      [] field = "total_debit" -> "balance"
      [] field = "balance" -> "entries_count"

\* get_total_credit, get_total_debit and get_balance each call
\* obj.get_summary(): its first query
get_summary_credit ==
    /\ req.pc \in {"total_credit", "total_debit", "balance"}
    /\ req.query = "credit"
    /\ req' = [req EXCEPT !.credit = QueryTotalCredit(entries, req.customer),
                          !.query = "debit"]
    /\ UNCHANGED <<customers, entries, nextCustomerId, nextEntryId, today, resp, users>>

\* its second query; the method keeps one key of the dict get_summary returns
get_summary_debit ==
    /\ req.pc \in {"total_credit", "total_debit", "balance"}
    /\ req.query = "debit"
    /\ LET total_debit == QueryTotalDebit(entries, req.customer)
           summ == [total_credit |-> req.credit,
                    total_debit |-> total_debit,
                    balance |-> req.credit - total_debit]
       IN  req' = [req EXCEPT ![req.pc] = summ[req.pc],
                              !.pc = NextField(req.pc),
                              !.query = "credit",
                              !.credit = 0]
    /\ UNCHANGED <<customers, entries, nextCustomerId, nextEntryId, today, resp, users>>

\* get_entries_count, the last field read: the response is complete
summary_entries_count ==
    /\ req.pc = "entries_count"
    /\ resp' = Response("summary", req.caller, req.customer, HTTP_200_OK,
                        [id |-> req.customer, name |-> req.name, phone |-> req.phone,
                         total_credit |-> req.total_credit,
                         total_debit |-> req.total_debit,
                         balance |-> req.balance,
                         entries_count |-> get_entries_count(entries, req.customer)])
    /\ req' = Idle
    /\ UNCHANGED <<customers, entries, nextCustomerId, nextEntryId, today, users>>

\* by_customer: Customer.objects.get(id=customer_id, user=request.user)
by_customer_get(u, c) ==
    /\ req.pc = "idle"
    /\ IF c # NoId /\ OwnedCustomer(customers, u, c)
       THEN /\ req' = [pc |-> "by_customer", query |-> "entries", caller |-> u,
                       customer |-> c, name |-> customers[c].name, credit |-> 0,
                       entries |-> <<>>]
            /\ UNCHANGED resp
       ELSE /\ resp' = by_customer_response(customers, entries, u, c)
            /\ UNCHANGED req
    /\ UNCHANGED <<customers, entries, nextCustomerId, nextEntryId, today, users>>

\* by_customer: serializer.data evaluates customer.ledger_entries.all()
by_customer_entries ==
    /\ req.pc = "by_customer"
    /\ req.query = "entries"
    /\ req' = [req EXCEPT !.entries = EntryList(entries, ledger_entries(entries, req.customer)),
                          !.query = "credit"]
    /\ UNCHANGED <<customers, entries, nextCustomerId, nextEntryId, today, resp, users>>

\* by_customer: customer.get_summary(), first query
by_customer_credit ==
    /\ req.pc = "by_customer"
    /\ req.query = "credit"
    /\ req' = [req EXCEPT !.credit = QueryTotalCredit(entries, req.customer),
                          !.query = "debit"]
    /\ UNCHANGED <<customers, entries, nextCustomerId, nextEntryId, today, resp, users>>

\* by_customer: customer.get_summary(), second query, and the response
by_customer_debit ==
    /\ req.pc = "by_customer"
    /\ req.query = "debit"
    /\ LET total_debit == QueryTotalDebit(entries, req.customer)
       IN  resp' = Response("by_customer", req.caller, req.customer, HTTP_200_OK,
                            [customer |-> [id |-> req.customer, name |-> req.name],
                             entries |-> req.entries,
                             summary |-> [total_credit |-> req.credit,
                                          total_debit |-> total_debit,
                                          balance |-> req.credit - total_debit]])
    /\ req' = Idle
    /\ UNCHANGED <<customers, entries, nextCustomerId, nextEntryId, today, users>>

\* One customer exists, created by its owner's POST /customers/.
InitInterleaved ==
    /\ customers = (1 :> [user |-> "u1", name |-> <<"R", "a", "h", "i", "m">>,
                          phone |-> <<"0", "1", "7">>])
    /\ entries = <<>>
    /\ nextCustomerId = 2
    /\ nextEntryId = 1
    /\ today = 1
    /\ resp = NoResponse
    /\ req = Idle
    /\ users = RegisteredUsers

\* The owner's requests that write the customer's entries run between the
\* queries of the owner's request that reads them.
NextInterleaved ==
    \/ \E c \in DOMAIN customers, d \in ValidEntryBodies :
          LedgerEntry_create(customers[c].user, c, d.type, d.amount, d.note)
    \/ \E e \in DOMAIN entries, d \in ValidEntryBodies :
          LedgerEntry_update(customers[entries[e].customer].user, e, d.type, d.amount, d.note)
    \/ \E e \in DOMAIN entries :
          LedgerEntry_destroy(customers[entries[e].customer].user, e)
    \/ \E c \in DOMAIN customers : summary_get_object(customers[c].user, c)
    \/ get_summary_credit
    \/ get_summary_debit
    \/ summary_entries_count
    \/ \E c \in DOMAIN customers : by_customer_get(customers[c].user, c)
    \/ by_customer_entries
    \/ by_customer_credit
    \/ by_customer_debit

SpecInterleaved == InitInterleaved /\ [][NextInterleaved]_vars

----------------------------------------------------------------------------
(* The filters over entries of several dates. *)

\* the days the clock of the model reaches
MaxDay == 2

\* midnight passes: auto_now_add stamps the next entries with the next day
AdvanceDay ==
    /\ today < MaxDay
    /\ today' = today + 1
    /\ UNCHANGED <<customers, entries, nextCustomerId, nextEntryId, resp, req, users>>

\* Each user has created one customer.
InitFilters ==
    /\ customers = (1 :> [user |-> "u1", name |-> <<"R", "a", "h", "i", "m">>,
                          phone |-> <<"0", "1", "7">>])
                   @@ (2 :> [user |-> "u2", name |-> <<"k", "a", "r", "i", "m">>,
                             phone |-> <<>>])
    /\ entries = <<>>
    /\ nextCustomerId = 3
    /\ nextEntryId = 1
    /\ today = 1
    /\ resp = NoResponse
    /\ req = Idle
    /\ users = RegisteredUsers

NextFilters ==
    \/ AdvanceDay
    \/ \E c \in DOMAIN customers, d \in ValidEntryBodies :
          LedgerEntry_create(customers[c].user, c, d.type, d.amount, d.note)
    \/ \E u \in Users, c \in CustomerIdParams, start_date \in DateParams,
          end_date \in DateParams :
          filter_by_date(u, c, start_date, end_date)
    \/ \E u \in Users, c \in CustomerIdParams, entry_type \in TypeParams :
          filter_by_type(u, c, entry_type)
    \/ \E op \in {"filter_by_date", "filter_by_type"} : permission_denied(op)

SpecFilters == InitFilters /\ [][NextFilters]_vars

----------------------------------------------------------------------------
(* The request bodies.  A body is a record of the fields the client sent;  *)
(* a serializer keeps the fields it declares writable and drops the rest.  *)

\* the row of the fields `fields`: the values of `given` where it has them,
\* else those of `row`
Overlay(row, given, fields) ==
    [f \in fields |-> IF f \in DOMAIN given THEN given[f] ELSE row[f]]

\* a response, with the body of the request it answers
Sent(body, response) == response @@ [request |-> body]

\* LedgerEntrySerializer with entry_date writable
LedgerEntry_validated_data_WithDate(body) ==
    [f \in DOMAIN body \cap {"type", "amount", "note", "entry_date"} |-> body[f]]

\* LedgerEntrySerializer with the customer among its fields
LedgerEntry_validated_data_WithCustomer(body) ==
    [f \in DOMAIN body \cap {"type", "amount", "note", "customer"} |-> body[f]]

\* LedgerEntrySerializer.Meta: of fields, id, created_at and entry_date are
\* read-only and type_display is read-only by declaration; customer is no field
LedgerEntry_validated_data(body) ==
    [f \in DOMAIN body \cap {"type", "amount", "note"} |-> body[f]]

\* the bodies of an entry create or replace: the three writable fields, with
\* or without a customer and an entry_date
EntryRequestBodies ==
    LET written == {d \in ValidEntryBodies : d.note = "rice"}
    IN  written
        \cup {d @@ [customer |-> c] : d \in written, c \in CustomerIds}
        \cup {d @@ [customer |-> c, entry_date |-> day] :
                 d \in written, c \in CustomerIds, day \in 1..MaxDay}

\* POST /ledger-entries/ with the body as sent: perform_create reads the
\* customer from request.data, serializer.save(customer=customer) builds the
\* row from validated_data and the customer, auto_now_add stamps entry_date
LedgerEntry_create_request(u, body) ==
    LET validated == LedgerEntry_validated_data(body)
        c == IF "customer" \in DOMAIN body THEN body.customer ELSE NoId
        row == Overlay([customer |-> c, entry_date |-> today],
                       [customer |-> c, entry_date |-> today] @@ validated,
                       {"customer", "type", "amount", "note", "entry_date"})
    IN  /\ nextEntryId <= MaxEntries
        /\ resp' = Sent(body, LedgerEntry_create_response(customers, u, c, validated.type,
                                  validated.amount, validated.note, nextEntryId, today))
        /\ IF ValidEntryInput(validated.type) /\ perform_create_saves(customers, u, c)
           THEN /\ entries' = entries @@ (nextEntryId :> row)
                /\ nextEntryId' = nextEntryId + 1
           ELSE UNCHANGED <<entries, nextEntryId>>
        /\ UNCHANGED <<customers, nextCustomerId, today, req, users>>

\* PUT /ledger-entries/{id}/ with the body as sent: ModelSerializer.update
\* sets every field of validated_data on the instance and saves it
LedgerEntry_update_request(u, e, body) ==
    LET validated == LedgerEntry_validated_data(body)
    IN  /\ resp' = Sent(body, LedgerEntry_update_response(customers, entries, u, e,
                                  validated.type, validated.amount, validated.note))
        /\ entries' = IF e \in EntryQueryset(customers, entries, u)
                         /\ ValidEntryInput(validated.type)
                      THEN [entries EXCEPT ![e] = Overlay(entries[e], validated,
                                                          DOMAIN entries[e])]
                      ELSE entries
        /\ UNCHANGED <<customers, nextCustomerId, nextEntryId, today, req, users>>

\* CustomerSerializer with the owner among its fields
Customer_validated_data_WithUser(body) ==
    [f \in DOMAIN body \cap {"name", "phone", "user"} |-> body[f]]

\* CustomerSerializer.Meta: name and phone are the writable fields of the
\* model's (address left out); user is no field
Customer_validated_data(body) ==
    [f \in DOMAIN body \cap {"name", "phone"} |-> body[f]]

\* the name check that takes a name of blanks for a name
name_errors_Untrimmed(validated) ==
    IF "name" \notin DOMAIN validated THEN [name |-> "This field is required."]
    ELSE IF validated.name = <<>> THEN BlankNameBody
    ELSE <<>>

\* the validation of name, a CharField that is required, trims whitespace and
\* allows no blank: the errors, none when <<>>
name_errors(validated) ==
    IF "name" \notin DOMAIN validated THEN [name |-> "This field is required."]
    ELSE IF ~ValidCustomerInput(strip(validated.name)) THEN BlankNameBody
    ELSE <<>>

\* validated_data after validation: the name trimmed, the phone None (empty)
\* when it was not sent
Customer_cleaned(validated) ==
    [validated EXCEPT !.name = strip(validated.name)]

\* the bodies of a customer create or replace: with a name, with an owner,
\* with an empty name, with a name of blanks, without a name
CustomerRequestBodies ==
    {[name |-> <<"R", "a", "h", "i", "m">>, phone |-> <<"0", "1", "7">>],
     [name |-> <<"k", "a", "r", "i", "m">>, phone |-> <<>>, user |-> "u2"],
     [name |-> <<>>, phone |-> <<"0", "1", "7">>],
     [name |-> <<" ">>, phone |-> <<>>],
     [phone |-> <<"0", "1", "7">>]}

\* POST /customers/ with the body as sent: serializer.save(user=request.user)
Customer_create_request(u, body) ==
    LET validated == Customer_validated_data(body)
    IN  /\ nextCustomerId <= MaxCustomers
        /\ IF name_errors(validated) = <<>>
           THEN LET row == Overlay([user |-> u], [user |-> u] @@ Customer_cleaned(validated),
                                   {"user", "name", "phone"})
                IN  /\ customers' = customers @@ (nextCustomerId :> row)
                    /\ nextCustomerId' = nextCustomerId + 1
                    /\ resp' = Sent(body, Response("customer_create", u, NoId,
                                        HTTP_201_CREATED,
                                        [id |-> nextCustomerId, name |-> row.name,
                                         phone |-> row.phone]))
           ELSE /\ resp' = Sent(body, Response("customer_create", u, NoId,
                                    HTTP_400_BAD_REQUEST, name_errors(validated)))
                /\ UNCHANGED <<customers, nextCustomerId>>
        /\ UNCHANGED <<entries, nextEntryId, today, req, users>>

\* PUT /customers/{id}/ with the body as sent: get_object, validation, then
\* ModelSerializer.update sets every field of validated_data on the instance
Customer_update_request(u, c, body) ==
    LET validated == Customer_validated_data(body)
    IN  /\ IF c \notin CustomerQueryset(customers, u)
           THEN /\ resp' = Sent(body, Response("customer_update", u, c,
                                    HTTP_404_NOT_FOUND, NotFoundBody))
                /\ UNCHANGED customers
           ELSE IF name_errors(validated) # <<>>
           THEN /\ resp' = Sent(body, Response("customer_update", u, c,
                                    HTTP_400_BAD_REQUEST, name_errors(validated)))
                /\ UNCHANGED customers
           ELSE LET row == Overlay(customers[c], Customer_cleaned(validated),
                                   DOMAIN customers[c])
                IN  /\ customers' = [customers EXCEPT ![c] = row]
                    /\ resp' = Sent(body, Response("customer_update", u, c, HTTP_200_OK,
                                        [id |-> c, name |-> row.name, phone |-> row.phone]))
        /\ UNCHANGED <<entries, nextCustomerId, nextEntryId, today, req, users>>

\* One customer exists; requests arrive with their bodies as sent, on
\* different days.
NextBodies ==
    \/ AdvanceDay
    \/ \E u \in Users, body \in CustomerRequestBodies : Customer_create_request(u, body)
    \/ \E u \in Users, c \in CustomerIds, body \in CustomerRequestBodies :
          Customer_update_request(u, c, body)
    \/ \E u \in Users, body \in EntryRequestBodies : LedgerEntry_create_request(u, body)
    \/ \E u \in Users, e \in EntryIds, body \in EntryRequestBodies :
          LedgerEntry_update_request(u, e, body)

SpecBodies == InitInterleaved /\ [][NextBodies]_vars

----------------------------------------------------------------------------
(* The accounts: registration and login.  Neither view asks for a          *)
(* credential (permissions.AllowAny), and no view deletes a User.          *)

MaxUsers == 3

\* the usernames, passwords and e-mail addresses a request may carry; the
\* empty username is a blank field, and "short" is under the minimum length
Usernames == Users \cup {"u3", ""}
Passwords == {"secret-1", "secret-2", "short"}
Emails == {"a@example.com", "b@example.com"}

RegistrationBodies ==
    [username : Usernames, email : Emails,
     password : Passwords, password_confirm : Passwords]

LoginBodies == [username : Usernames, password : Passwords]

\* the rows of the User table with this username
UsersNamed(us, username) == {i \in DOMAIN us : us[i].username = username}

\* the errors of a serializer: the fields that have one, each with its messages
Errors(byField) == [f \in {g \in DOMAIN byField : byField[g] # <<>>} |-> byField[f]]
NoErrors == Errors([username |-> <<>>])

\* a required CharField refuses the empty string
blank_errors(value) ==
    IF value = "" THEN <<"This field may not be blank.">> ELSE <<>>

username_errors_NotUnique(us, username) == blank_errors(username)

\* the username of the ModelSerializer: not blank, and the UniqueValidator of
\* the User model's unique username
username_errors(us, username) ==
    IF blank_errors(username) # <<>> THEN blank_errors(username)
    ELSE IF UsersNamed(us, username) # {}
         THEN <<"A user with that username already exists.">>
         ELSE <<>>

\* CharField(write_only=True, min_length=6)
min_length_errors(value) ==
    IF blank_errors(value) # <<>> THEN blank_errors(value)
    ELSE IF Len(value) < 6
         THEN <<"Ensure this field has at least 6 characters.">>
         ELSE <<>>

\* is_valid of the registration: the fields first, each by itself, and
\* validate() only when every field is valid
UserRegistrationSerializer_errors(us, data) ==
    LET fields == Errors([username |-> username_errors(us, data.username),
                          password |-> min_length_errors(data.password),
                          password_confirm |-> min_length_errors(data.password_confirm)])
    IN  IF DOMAIN fields # {} THEN fields
        ELSE IF data.password # data.password_confirm
             THEN [password |-> <<"passwords do not match">>]
             ELSE NoErrors

\* create_user stores the password hashed; check_password hashes the raw
\* password again and compares
make_password(raw) == [algorithm |-> "pbkdf2_sha256", hash |-> raw]
check_password(raw, encoded) == encoded = make_password(raw)

\* validated_data.pop('password_confirm'); User.objects.create_user(**validated_data)
UserRegistrationSerializer_create(data) ==
    [username |-> data.username, email |-> data.email,
     password |-> make_password(data.password)]

\* the id the User table gives its next row
NextUserId(us) == Cardinality(DOMAIN us) + 1

\* the user of a response body
UserBody(us, i) == [id |-> i, username |-> us[i].username, email |-> us[i].email]

register_response(us, data) ==
    LET errors == UserRegistrationSerializer_errors(us, data)
        i == NextUserId(us)
        saved == us @@ (i :> UserRegistrationSerializer_create(data))
    IN  IF DOMAIN errors = {}
        THEN [op |-> "register", caller |-> AnonymousUser,
              status |-> HTTP_201_CREATED,
              body |-> [message |-> "Successfully registered",
                        user |-> UserBody(saved, i)]]
        ELSE [op |-> "register", caller |-> AnonymousUser,
              status |-> HTTP_400_BAD_REQUEST, body |-> errors]

\* POST /api/auth/register/
register(data) ==
    /\ Cardinality(DOMAIN users) < MaxUsers
    /\ users' = IF DOMAIN UserRegistrationSerializer_errors(users, data) = {}
                THEN users @@ (NextUserId(users) :> UserRegistrationSerializer_create(data))
                ELSE users
    /\ resp' = Sent(data, register_response(users, data))
    /\ UNCHANGED <<customers, entries, nextCustomerId, nextEntryId, today, req>>

\* authenticate(username=, password=): the user of that name whose password
\* checks, or None
authenticate(us, username, password) ==
    LET found == {i \in UsersNamed(us, username) : check_password(password, us[i].password)}
    IN  IF found = {} THEN NoId ELSE CHOOSE i \in found : TRUE

non_field_errors_Telling(us, data) ==
    IF UsersNamed(us, data.username) = {}
    THEN <<"No account has this username">>
    ELSE IF authenticate(us, data.username, data.password) = NoId
         THEN <<"Wrong password">>
         ELSE <<>>

\* validate() of the login: one message for every failure of authenticate
non_field_errors(us, data) ==
    IF authenticate(us, data.username, data.password) = NoId
    THEN <<"Invalid username or password">>
    ELSE <<>>

UserLoginSerializer_errors(us, data) ==
    LET fields == Errors([username |-> blank_errors(data.username),
                          password |-> blank_errors(data.password)])
    IN  IF DOMAIN fields # {} THEN fields
        ELSE Errors([non_field_errors |-> non_field_errors(us, data)])

\* RefreshToken.for_user(user) and its access_token
RefreshToken_for_user(i) ==
    [access |-> [token_type |-> "access", user_id |-> i],
     refresh |-> [token_type |-> "refresh", user_id |-> i]]

login_response(us, data) ==
    LET errors == UserLoginSerializer_errors(us, data)
        i == authenticate(us, data.username, data.password)
    IN  IF DOMAIN errors = {}
        THEN [op |-> "login", caller |-> AnonymousUser, status |-> HTTP_200_OK,
              body |-> [message |-> "Successfully logged in",
                        access |-> RefreshToken_for_user(i).access,
                        refresh |-> RefreshToken_for_user(i).refresh,
                        user |-> UserBody(us, i)]]
        ELSE [op |-> "login", caller |-> AnonymousUser,
              status |-> HTTP_400_BAD_REQUEST, body |-> errors]

\* POST /api/auth/login/
login(data) ==
    /\ resp' = Sent(data, login_response(users, data))
    /\ UNCHANGED <<customers, entries, nextCustomerId, nextEntryId, today, req, users>>

\* no account is registered yet
InitAuth ==
    /\ customers = <<>>
    /\ entries = <<>>
    /\ nextCustomerId = 1
    /\ nextEntryId = 1
    /\ today = 1
    /\ resp = NoResponse
    /\ req = Idle
    /\ users = <<>>

NextAuth ==
    \/ \E data \in RegistrationBodies : register(data)
    \/ \E data \in LoginBodies : login(data)

SpecAuth == InitAuth /\ [][NextAuth]_vars

----------------------------------------------------------------------------
(* The creation of an entry and the deletion of its customer, statement by *)
(* statement.  perform_create reads the customer and then inserts the      *)
(* entry; destroy reads the customer, collects the entries the cascade     *)
(* takes with it and deletes them and the customer in one transaction.     *)
(* Neither holds a lock between its read and its write.                    *)

ForeignKey_Unchecked(cs, c) == TRUE

\* the constraint of the ForeignKey LedgerEntry.customer in the data store:
\* a write that leaves an entry of a customer that does not exist fails
ForeignKey(cs, c) == c \in DOMAIN cs

\* no request is between its read and its write
NoRequests == [create |-> Idle, destroy |-> Idle]

InitRace ==
    /\ customers = (1 :> [user |-> "u1", name |-> <<"R", "a", "h", "i", "m">>,
                          phone |-> <<"0", "1", "7">>])
    /\ entries = <<>>
    /\ nextCustomerId = 2
    /\ nextEntryId = 1
    /\ today = 1
    /\ resp = NoResponse
    /\ req = NoRequests
    /\ users = RegisteredUsers

\* POST /ledger-entries/ up to Customer.objects.get(id=customer_id, user=request.user)
perform_create_get(u, c, body) ==
    /\ req.create = Idle
    /\ nextEntryId <= MaxEntries
    /\ IF ValidEntryInput(body.type) /\ perform_create_saves(customers, u, c)
       THEN /\ req' = [req EXCEPT !.create = [pc |-> "save", caller |-> u,
                                              customer |-> c, data |-> body]]
            /\ UNCHANGED resp
       ELSE /\ resp' = LedgerEntry_create_response(customers, u, c, body.type,
                                                   body.amount, body.note,
                                                   nextEntryId, today)
            /\ UNCHANGED req
    /\ UNCHANGED <<customers, entries, nextCustomerId, nextEntryId, today, users>>

\* serializer.save(customer=customer): the INSERT, which the data store
\* refuses (IntegrityError, uncaught) when the customer is gone
perform_create_save ==
    /\ req.create # Idle
    /\ LET r == req.create
       IN  IF ForeignKey(customers, r.customer)
           THEN /\ entries' = entries @@ (nextEntryId :>
                                  [customer |-> r.customer, type |-> r.data.type,
                                   amount |-> r.data.amount, note |-> r.data.note,
                                   entry_date |-> today])
                /\ nextEntryId' = nextEntryId + 1
                /\ resp' = Response("entry_create", r.caller, r.customer,
                                    HTTP_201_CREATED,
                                    [id |-> nextEntryId, type |-> r.data.type,
                                     amount |-> r.data.amount, note |-> r.data.note,
                                     entry_date |-> today])
           ELSE /\ resp' = Response("entry_create", r.caller, r.customer,
                                    HTTP_500_INTERNAL_SERVER_ERROR, ServerErrorBody)
                /\ UNCHANGED <<entries, nextEntryId>>
    /\ req' = [req EXCEPT !.create = Idle]
    /\ UNCHANGED <<customers, nextCustomerId, today, users>>

\* DELETE /customers/{id}/ up to the collection of the rows to delete:
\* get_object, and the entries on_delete=CASCADE takes with the customer
destroy_collect(u, c) ==
    /\ req.destroy = Idle
    /\ IF c \in CustomerQueryset(customers, u)
       THEN /\ req' = [req EXCEPT !.destroy = [pc |-> "delete", caller |-> u,
                                               customer |-> c,
                                               collected |-> ledger_entries(entries, c)]]
            /\ UNCHANGED resp
       ELSE /\ resp' = Customer_destroy_response(customers, u, c)
            /\ UNCHANGED req
    /\ UNCHANGED <<customers, entries, nextCustomerId, nextEntryId, today, users>>

\* the DELETEs of the customer's entries and of the customer, in one
\* transaction, which the data store rolls back (IntegrityError, uncaught)
\* when an entry of the customer is left.  The entries deleted are the ones
\* collected, or the ones the DELETE finds when it runs: an entry saved in
\* between is left by the first and taken by the second.
destroy_delete ==
    /\ req.destroy # Idle
    /\ \E deleted \in {req.destroy.collected,
                        ledger_entries(entries, req.destroy.customer)} :
       LET r == req.destroy
           cs == [k \in DOMAIN customers \ {r.customer} |-> customers[k]]
           es == [e \in DOMAIN entries \ deleted |-> entries[e]]
       IN  IF \A e \in DOMAIN es : ForeignKey(cs, es[e].customer)
           THEN /\ customers' = cs
                /\ entries' = es
                /\ resp' = Response("customer_destroy", r.caller, r.customer,
                                    HTTP_204_NO_CONTENT, <<>>)
           ELSE /\ resp' = Response("customer_destroy", r.caller, r.customer,
                                    HTTP_500_INTERNAL_SERVER_ERROR, ServerErrorBody)
                /\ UNCHANGED <<customers, entries>>
    /\ req' = [req EXCEPT !.destroy = Idle]
    /\ UNCHANGED <<nextCustomerId, nextEntryId, today, users>>

NextRace ==
    \/ \E u \in Users, body \in ValidCustomerBodies :
          Customer_create(u, body.name, body.phone)
    \/ \E u \in Users, c \in CustomerIds \cup {NoId}, body \in EntryBodies :
          perform_create_get(u, c, body)
    \/ perform_create_save
    \/ \E u \in Users, c \in CustomerIds : destroy_collect(u, c)
    \/ destroy_delete

SpecRace == InitRace /\ [][NextRace]_vars

----------------------------------------------------------------------------
(* The claims. *)

\* a successful response of the summary endpoint
IsSummary(r) == r.op = "summary" /\ r.status = HTTP_200_OK
\* a successful response of by_customer
IsByCustomer(r) == r.op = "by_customer" /\ r.status = HTTP_200_OK

\* C1: in every summary returned for a customer, by the summary endpoint or
\* inside by_customer, balance equals total_credit minus total_debit.
C1_BalanceIsCreditMinusDebit ==
    /\ IsSummary(resp) =>
          resp.body.balance = resp.body.total_credit - resp.body.total_debit
    /\ IsByCustomer(resp) =>
          resp.body.summary.balance =
              resp.body.summary.total_credit - resp.body.summary.total_debit

\* the amounts of the stored entries of customer c and type t, added up
\* entry id by entry id
RECURSIVE TotalOfType(_, _, _)
TotalOfType(c, t, n) ==
    IF n = 0 THEN 0
    ELSE TotalOfType(c, t, n - 1)
         + (IF n \in DOMAIN entries /\ entries[n].customer = c /\ entries[n].type = t
            THEN entries[n].amount ELSE 0)

\* C2: after any sequence of entry creates, replaces and deletes, a summary
\* of a customer (the summary endpoint's, by_customer's) has total_credit equal
\* to the sum of the amounts of the customer's entries that are now CREDIT and
\* total_debit equal to the sum over those that are now DEBIT.
C2_TotalsAreSumsOfCurrentEntries ==
    /\ IsSummary(resp) =>
          /\ resp.body.total_credit = TotalOfType(resp.arg, "CREDIT", nextEntryId - 1)
          /\ resp.body.total_debit = TotalOfType(resp.arg, "DEBIT", nextEntryId - 1)
    /\ IsByCustomer(resp) =>
          /\ resp.body.summary.total_credit = TotalOfType(resp.arg, "CREDIT", nextEntryId - 1)
          /\ resp.body.summary.total_debit = TotalOfType(resp.arg, "DEBIT", nextEntryId - 1)

\* C2's case: a summary returned after an entry was created, another replaced
\* or created with the other type, and one deleted or not: both totals positive
C2_Witness ==
    /\ IsSummary(resp)
    /\ resp.body.total_credit = 20
    /\ resp.body.total_debit = 10
    /\ nextEntryId = 3

\* the stored entries of customer c that have type t
EntriesOfType(c, t) == {e \in DOMAIN entries : entries[e].customer = c /\ entries[e].type = t}

\* C3: a summary of a customer with no entries has total_credit = total_debit
\* = balance = 0 and entries_count = 0; with no entry of a type the total of
\* that type is 0; entries_count is the number of the customer's entries.
C3_ZeroTotalsAndCount ==
    IsSummary(resp) =>
        /\ EntriesOfType(resp.arg, "CREDIT") = {} => resp.body.total_credit = 0
        /\ EntriesOfType(resp.arg, "DEBIT") = {} => resp.body.total_debit = 0
        /\ EntriesOfType(resp.arg, "CREDIT") \cup EntriesOfType(resp.arg, "DEBIT") = {} =>
              resp.body.balance = 0 /\ resp.body.entries_count = 0
        /\ resp.body.entries_count =
              Cardinality({e \in DOMAIN entries : entries[e].customer = resp.arg})

\* C3's cases: a summary of a customer without entries while another customer
\* has some, and a summary of a customer with entries of one type only
C3_Witness ==
    /\ IsSummary(resp)
    /\ resp.body.entries_count = 0
    /\ DOMAIN entries # {}

\* an entry create request with a valid body, answered
IsValidCreate(r) == r.op = "entry_create" /\ r.status # HTTP_400_BAD_REQUEST

\* C4: an entry create whose customer id names a customer of another user, or
\* no customer, is answered with 404.
C4_CreateOnForeignCustomerIs404 ==
    (/\ IsValidCreate(resp)
     /\ resp.arg \in CustomerIds
     /\ ~OwnedCustomer(customers, resp.caller, resp.arg)) =>
        resp.status = HTTP_404_NOT_FOUND

\* C5: an entry create against a customer id the caller does not own (another
\* user's, unknown or absent) leaves the stored entries as they were, and an
\* entry that is stored was created against a customer its creator owned.
C5_ForeignCreatePersistsNothing ==
    [][(resp'.op = "entry_create" /\ resp'.caller \in Users) =>
          /\ ~OwnedCustomer(customers, resp'.caller, resp'.arg) =>
                entries' = entries /\ nextEntryId' = nextEntryId
          /\ \A e \in DOMAIN entries' \ DOMAIN entries :
                /\ entries'[e].customer = resp'.arg
                /\ OwnedCustomer(customers, resp'.caller, entries'[e].customer)]_vars

\* C5's case: a valid create against another user's existing customer was answered
C5_Witness ==
    /\ IsValidCreate(resp)
    /\ resp.arg \in DOMAIN customers
    /\ customers[resp.arg].user # resp.caller

\* the customer table without customer c
WithoutCustomer(cs, c) == [k \in DOMAIN cs \ {c} |-> cs[k]]
\* the entry table without the entries of customer c
WithoutEntriesOf(es, c) == [e \in DOMAIN es \ ledger_entries(es, c) |-> es[e]]
\* the entry table without entry e
WithoutEntry(es, e) == [k \in DOMAIN es \ {e} |-> es[k]]

\* C6: for every operation that takes a customer id or an entry id, the
\* response to a caller for an id that belongs to another user is the response
\* the same caller gets from the store that differs only in not holding that
\* id.
C6_ForeignIdLooksAbsent ==
    \A u \in Users :
        /\ \A c \in DOMAIN customers : customers[c].user # u =>
              LET cs2 == WithoutCustomer(customers, c)
                  es2 == WithoutEntriesOf(entries, c)
              IN  /\ Customer_retrieve_response(customers, u, c) =
                        Customer_retrieve_response(cs2, u, c)
                  /\ \A b \in CustomerBodies :
                        Customer_update_response(customers, u, c, b.name, b.phone) =
                        Customer_update_response(cs2, u, c, b.name, b.phone)
                  /\ Customer_destroy_response(customers, u, c) =
                        Customer_destroy_response(cs2, u, c)
                  /\ summary_response(customers, entries, u, c) =
                        summary_response(cs2, es2, u, c)
                  /\ \A d \in EntryBodies :
                        LedgerEntry_create_response(customers, u, c, d.type, d.amount,
                                                    d.note, nextEntryId, today) =
                        LedgerEntry_create_response(cs2, u, c, d.type, d.amount,
                                                    d.note, nextEntryId, today)
                  /\ by_customer_response(customers, entries, u, c) =
                        by_customer_response(cs2, es2, u, c)
                  /\ \A start_date \in DateParams, end_date \in DateParams :
                        filter_by_date_response(customers, entries, u, c, start_date, end_date) =
                        filter_by_date_response(cs2, es2, u, c, start_date, end_date)
                  /\ \A entry_type \in TypeParams :
                        filter_by_type_response(customers, entries, u, c, entry_type) =
                        filter_by_type_response(cs2, es2, u, c, entry_type)
        /\ \A e \in DOMAIN entries : customers[entries[e].customer].user # u =>
              LET es2 == WithoutEntry(entries, e)
              IN  /\ LedgerEntry_retrieve_response(customers, entries, u, e) =
                        LedgerEntry_retrieve_response(customers, es2, u, e)
                  /\ \A d \in EntryBodies :
                        LedgerEntry_update_response(customers, entries, u, e, d.type,
                                                    d.amount, d.note) =
                        LedgerEntry_update_response(customers, es2, u, e, d.type,
                                                    d.amount, d.note)
                  /\ LedgerEntry_destroy_response(customers, entries, u, e) =
                        LedgerEntry_destroy_response(customers, es2, u, e)

\* C6's case: by_customer was asked for a customer that exists under another
\* owner and has entries, and answered
C6_Witness ==
    /\ resp.op = "by_customer"
    /\ resp.arg \in DOMAIN customers
    /\ customers[resp.arg].user # resp.caller
    /\ ledger_entries(entries, resp.arg) # {}

\* C7: the customer list and search return only customers of the caller;
\* retrieve, replace, delete and summary on a customer of another user or on an
\* unknown id return 404 and leave every customer and entry as it was.
C7_CustomerOpsAreScoped ==
    [][resp'.caller \in Users =>
       /\ (resp'.op \in {"customer_list", "search"} /\ resp'.status = HTTP_200_OK) =>
             \A i \in DOMAIN resp'.body :
                 OwnedCustomer(customers, resp'.caller, resp'.body[i].id)
       /\ (/\ resp'.op \in {"customer_retrieve", "customer_update",
                            "customer_destroy", "summary"}
           /\ ~OwnedCustomer(customers, resp'.caller, resp'.arg)) =>
             /\ resp'.status = HTTP_404_NOT_FOUND
             /\ customers' = customers
             /\ entries' = entries]_vars

\* C7's case: a delete of another user's customer, which has entries, was answered
C7_Witness ==
    /\ resp.op = "customer_destroy"
    /\ resp.arg \in DOMAIN customers
    /\ customers[resp.arg].user # resp.caller
    /\ ledger_entries(entries, resp.arg) # {}

\* C8: the entry list returns only entries whose customer the caller owns;
\* retrieve, replace and delete of an entry whose customer another user owns
\* return 404 and leave the entry as it was.
C8_EntryOpsAreScoped ==
    [][resp'.caller \in Users =>
       /\ resp'.op = "entry_list" =>
             \A i \in DOMAIN resp'.body :
                 /\ resp'.body[i].id \in DOMAIN entries
                 /\ customers[entries[resp'.body[i].id].customer].user = resp'.caller
       /\ (/\ resp'.op \in {"entry_retrieve", "entry_update", "entry_destroy"}
           /\ resp'.arg \in DOMAIN entries
           /\ customers[entries[resp'.arg].customer].user # resp'.caller) =>
             /\ resp'.status = HTTP_404_NOT_FOUND
             /\ resp'.arg \in DOMAIN entries'
             /\ entries'[resp'.arg] = entries[resp'.arg]]_vars

\* C8's case: a replace of an entry of another user's customer was answered
C8_Witness ==
    /\ resp.op = "entry_update"
    /\ resp.arg \in DOMAIN entries
    /\ customers[entries[resp.arg].customer].user # resp.caller

\* field f of the summaries of the customers 1..n that are in S, added up
RECURSIVE SumOfSummaries(_, _, _)
SumOfSummaries(S, f, n) ==
    IF n = 0 THEN 0
    ELSE SumOfSummaries(S, f, n - 1)
         + (IF n \in S THEN get_summary(entries, n)[f] ELSE 0)

\* C9: statistics returns, over the customers the caller owns and only those,
\* total_customers = their number, total_credit, total_debit and total_balance
\* = the sums of their summaries' values (as the number a client reads: the
\* float of the decimal sum), total_entries = the number of their entries.
C9_StatisticsAreSumsOfSummaries ==
    (resp.op = "statistics" /\ resp.status = HTTP_200_OK) =>
        LET owned == {c \in DOMAIN customers : customers[c].user = resp.caller}
            n == nextCustomerId - 1
        IN  /\ resp.body.total_customers = Cardinality(owned)
            /\ resp.body.total_credit = float(SumOfSummaries(owned, "total_credit", n))
            /\ resp.body.total_debit = float(SumOfSummaries(owned, "total_debit", n))
            /\ resp.body.total_balance = float(SumOfSummaries(owned, "balance", n))
            /\ resp.body.total_entries =
                  Cardinality({e \in DOMAIN entries : entries[e].customer \in owned})

\* the entry tables one customer c can have: any entries, of any valid bodies
EntryTablesOf(c) ==
    UNION {[S -> {[customer |-> c, type |-> d.type, amount |-> d.amount,
                   note |-> d.note, entry_date |-> today] : d \in ValidEntryBodies}] :
           S \in SUBSET EntryIds}

\* C10: the total_credit, total_debit, balance and entries_count of one
\* summary response describe one and the same state of the customer's entries.
C10_SummaryIsOneRead ==
    IsSummary(resp) =>
        \E es \in EntryTablesOf(resp.arg) :
            /\ resp.body.total_credit = get_summary(es, resp.arg).total_credit
            /\ resp.body.total_debit = get_summary(es, resp.arg).total_debit
            /\ resp.body.balance = get_summary(es, resp.arg).balance
            /\ resp.body.entries_count = get_entries_count(es, resp.arg)

----------------------------------------------------------------------------
(* The filters, the search, by_customer, the cascade, the credential and   *)
(* the entry types.                                                        *)

\* the ids of the rows of a serialized list
IdsOf(list) == {list[i].id : i \in DOMAIN list}

\* a successful response of filter_by_date
IsFilterByDate(r) == r.op = "filter_by_date" /\ r.status = HTTP_200_OK

\* C11: filter_by_date on an owned customer returns an entry dated D if and
\* only if the entry is the named customer's, start_date is not given or
\* start_date <= D, and end_date is not given or D <= end_date; every row is
\* returned once, as the stored entry, and total_entries is their number.
C11_DateFilterIsInclusive ==
    IsFilterByDate(resp) =>
        LET start_date == resp.body.date_range.start
            end_date == resp.body.date_range.end
            returned == resp.body.entries
        IN  /\ OwnedCustomer(customers, resp.caller, resp.arg)
            /\ \A e \in DOMAIN entries :
                   e \in IdsOf(returned) <=>
                       /\ entries[e].customer = resp.arg
                       /\ start_date.kind = "date" => start_date.day <= entries[e].entry_date
                       /\ end_date.kind = "date" => entries[e].entry_date <= end_date.day
            /\ IdsOf(returned) \subseteq DOMAIN entries
            /\ \A i \in DOMAIN returned : returned[i] = EntryData(entries, returned[i].id)
            /\ Cardinality(IdsOf(returned)) = Len(returned)
            /\ resp.body.total_entries = Len(returned)

\* C11's case: the filter from day 2 to day 2 returned the one entry dated
\* day 2 of a customer that also has an entry dated day 1, while another user's
\* customer exists.
C11_Witness ==
    /\ IsFilterByDate(resp)
    /\ resp.body.date_range = [start |-> DateParam(2), end |-> DateParam(2)]
    /\ resp.body.total_entries = 1
    /\ \E e \in DOMAIN entries :
          entries[e].customer = resp.arg /\ entries[e].entry_date = 1
    /\ \E e \in DOMAIN entries :
          entries[e].customer = resp.arg /\ entries[e].entry_date = 2

\* filter_by_date refuses the request (u, c, start_date, end_date) with 400
\* and returns no entries
RefusesDates(u, c, start_date, end_date) ==
    LET r == filter_by_date_response(customers, entries, u, c, start_date, end_date)
    IN  /\ r.status = HTTP_400_BAD_REQUEST
        /\ DOMAIN r.body = {"error"}

\* C12 as stated: filter_by_date on an owned customer answers 400, with no
\* entries, whenever start_date or end_date is supplied and is not a
\* YYYY-MM-DD date, whatever the other parameter is: no such request is
\* answered with entries.
C12_MalformedDateIs400 ==
    IsFilterByDate(resp) =>
        /\ resp.body.date_range.start.kind \notin {"empty", "malformed"}
        /\ resp.body.date_range.end.kind \notin {"empty", "malformed"}

\* C12, amended: filter_by_date on an owned customer answers 400, with no
\* entries, whenever start_date or end_date is a string that is not empty and
\* is not a YYYY-MM-DD date, whatever the other parameter is; a parameter
\* supplied empty is handled as an absent one.
C12_NonEmptyMalformedDateIs400 ==
    \A u \in Users, c \in CustomerIds, start_date \in DateParams, end_date \in DateParams :
        OwnedCustomer(customers, u, c) =>
            /\ (start_date.kind = "malformed" \/ end_date.kind = "malformed")
                   => RefusesDates(u, c, start_date, end_date)
            /\ LET given == filter_by_date_response(customers, entries, u, c,
                                                     start_date, end_date)
                   absent == filter_by_date_response(customers, entries, u, c,
                                 IF start_date = EmptyDate THEN NoDate ELSE start_date,
                                 IF end_date = EmptyDate THEN NoDate ELSE end_date)
               IN  /\ given.status = absent.status
                   /\ given.status = HTTP_200_OK =>
                          /\ given.body.entries = absent.body.entries
                          /\ given.body.total_entries = absent.body.total_entries

\* C12's case: a customer with entries was filtered by its owner with a
\* malformed end_date (start_date passed its own check) and the answer was 400.
C12_Witness ==
    /\ resp.op = "filter_by_date"
    /\ resp.status = HTTP_400_BAD_REQUEST
    /\ resp.body = [error |-> "Invalid end date format (YYYY-MM-DD expected)"]
    /\ OwnedCustomer(customers, resp.caller, resp.arg)
    /\ ledger_entries(entries, resp.arg) # {}

\* C13: filter_by_type answers 400, with no entries, every request whose type
\* is absent or is any value other than CREDIT or DEBIT, whoever the caller
\* and whatever the customer_id; a response that carries entries is for
\* CREDIT or DEBIT.
C13_TypeFilterRejectsOtherTypes ==
    /\ \A u \in Users, c \in CustomerIdParams, entry_type \in TypeParams \ Types :
          LET r == filter_by_type_response(customers, entries, u, c, entry_type)
          IN  r.status = HTTP_400_BAD_REQUEST /\ DOMAIN r.body = {"error"}
    /\ (resp.op = "filter_by_type" /\ resp.status = HTTP_200_OK) => resp.body.type \in Types

\* C13's case: the owner of a customer with entries asked for them by a type
\* that is not CREDIT or DEBIT and was answered 400.
C13_Witness ==
    /\ resp.op = "filter_by_type"
    /\ resp.status = HTTP_400_BAD_REQUEST
    /\ resp.body = [error |-> "type must be CREDIT or DEBIT"]
    /\ OwnedCustomer(customers, resp.caller, resp.arg)
    /\ ledger_entries(entries, resp.arg) # {}

\* C14: filter_by_type with type T in {CREDIT, DEBIT} on an owned customer
\* returns exactly that customer's entries of type T, each once and as stored,
\* entries_count = their number, and total_amount = the sum of their amounts
\* (as the number a client reads: the float of the decimal sum).
C14_TypeFilterTotals ==
    (resp.op = "filter_by_type" /\ resp.status = HTTP_200_OK) =>
        LET returned == resp.body.entries
            matching == {e \in DOMAIN entries :
                            /\ entries[e].customer = resp.arg
                            /\ entries[e].type = resp.body.type}
        IN  /\ OwnedCustomer(customers, resp.caller, resp.arg)
            /\ IdsOf(returned) = matching
            /\ Cardinality(matching) = Len(returned)
            /\ \A i \in DOMAIN returned : returned[i] = EntryData(entries, returned[i].id)
            /\ resp.body.entries_count = Cardinality(matching)
            /\ resp.body.total_amount = float(SumAmount(entries, matching))

\* a response of search to a caller with a credential
IsSearch(r) == r.op = "search" /\ r.caller \in Users

\* C15: a customer search whose query string is shorter than 2 characters
\* (absent and empty included) is answered 400 with an error, never with a
\* list of customers.
C15_ShortQueryIs400 ==
    (IsSearch(resp) /\ Len(resp.arg) < 2) =>
        /\ resp.status = HTTP_400_BAD_REQUEST
        /\ resp.body = [error |-> "At least 2 characters required for search"]

\* C15's case: a one-character query that occurs in the name of a customer of
\* the caller was answered 400.
C15_Witness ==
    /\ IsSearch(resp)
    /\ Len(resp.arg) = 1
    /\ resp.status = HTTP_400_BAD_REQUEST
    /\ \E c \in DOMAIN customers :
          /\ customers[c].user = resp.caller
          /\ \E i \in DOMAIN customers[c].name : customers[c].name[i] = resp.arg[1]

\* a text with the case of its letters folded
Folded(text) == [i \in DOMAIN text |-> Fold(text[i])]

\* q is a substring of text, the case of the letters set aside
IsSubstringIgnoringCase(q, text) ==
    \E a \in 1..(Len(text) + 1), b \in 0..Len(text) :
        SubSeq(Folded(text), a, b) = Folded(q)

\* the caller's customers whose name or phone contains q
MatchingCustomers(u, q) ==
    {c \in DOMAIN customers :
        /\ customers[c].user = u
        /\ \/ IsSubstringIgnoringCase(q, customers[c].name)
           \/ IsSubstringIgnoringCase(q, customers[c].phone)}

\* C16 as stated: a customer search with a query of 2 or more characters is
\* answered with exactly the caller's own customers whose name or phone
\* contains the query as a case-insensitive substring.
C16_SearchReturnsExactlyTheMatches ==
    (IsSearch(resp) /\ Len(resp.arg) >= 2) =>
        /\ resp.status = HTTP_200_OK
        /\ IdsOf(resp.body) = MatchingCustomers(resp.caller, resp.arg)

\* C16, amended: the query is first stripped of leading and trailing
\* whitespace.  If 2 or more characters remain, the search is answered with
\* exactly the caller's own customers whose name or phone contains the
\* stripped query as a case-insensitive substring, each once and as stored;
\* if fewer remain, it is answered 400.
C16_SearchReturnsExactlyTheStrippedMatches ==
    IsSearch(resp) =>
        IF Len(strip(resp.arg)) >= 2
        THEN /\ resp.status = HTTP_200_OK
             /\ IdsOf(resp.body) = MatchingCustomers(resp.caller, strip(resp.arg))
             /\ Cardinality(IdsOf(resp.body)) = Len(resp.body)
             /\ \A i \in DOMAIN resp.body :
                    resp.body[i] = CustomerData(customers, resp.body[i].id)
        ELSE resp.status = HTTP_400_BAD_REQUEST

\* C16's case: the query RA was answered with the caller's customer Rahim and
\* not with the customer karim, and not with Rahim of another user.
C16_Witness ==
    /\ IsSearch(resp)
    /\ resp.arg = <<"R", "A">>
    /\ resp.status = HTTP_200_OK
    /\ Len(resp.body) = 1
    /\ \E c \in DOMAIN customers :
          customers[c].user # resp.caller /\ customers[c].name = <<"R", "a", "h", "i", "m">>

\* C17: by_customer answers 400 when customer_id is missing, 404 when it is
\* the id of no customer or of a customer of another user (400 or 404 when it
\* is no id at all), and otherwise returns exactly the named customer's
\* entries, each once and as stored, with that customer's summary.
C17_ByCustomerRequiresOwnedCustomer ==
    (resp.op = "by_customer" /\ resp.caller \in Users) =>
        IF resp.arg = NoId THEN resp.status = HTTP_400_BAD_REQUEST
        ELSE IF resp.arg = NotANumber
        THEN resp.status \in {HTTP_400_BAD_REQUEST, HTTP_404_NOT_FOUND}
        ELSE IF ~(resp.arg \in DOMAIN customers /\ customers[resp.arg].user = resp.caller)
        THEN resp.status = HTTP_404_NOT_FOUND
        ELSE LET returned == resp.body.entries
                 own == {e \in DOMAIN entries : entries[e].customer = resp.arg}
                 credit == SumAmount(entries, {e \in own : entries[e].type = "CREDIT"})
                 debit == SumAmount(entries, {e \in own : entries[e].type = "DEBIT"})
             IN  /\ resp.status = HTTP_200_OK
                 /\ resp.body.customer.id = resp.arg
                 /\ IdsOf(returned) = own
                 /\ Cardinality(own) = Len(returned)
                 /\ \A i \in DOMAIN returned :
                        returned[i] = EntryData(entries, returned[i].id)
                 /\ resp.body.summary = [total_credit |-> credit, total_debit |-> debit,
                                         balance |-> credit - debit]

\* C18: a successful delete of a customer removes that customer and all of
\* its ledger entries and nothing else: every other customer and every entry
\* of another customer is unchanged, and afterwards no user sees an entry of
\* the deleted customer in the entry list, by id, through by_customer or the
\* filters, nor counted in statistics.
C18_DeleteCascadesAndNothingElse ==
    [][(resp'.op = "customer_destroy" /\ resp'.status = HTTP_204_NO_CONTENT) =>
          LET c == resp'.arg
              gone == {e \in DOMAIN entries : entries[e].customer = c}
          IN  /\ c \in DOMAIN customers
              /\ DOMAIN customers' = DOMAIN customers \ {c}
              /\ \A k \in DOMAIN customers' : customers'[k] = customers[k]
              /\ DOMAIN entries' = DOMAIN entries \ gone
              /\ \A e \in DOMAIN entries' : entries'[e] = entries[e]
              /\ \A u \in Users :
                    /\ IdsOf(LedgerEntry_list_response(customers', entries', u).body)
                          \cap gone = {}
                    /\ \A e \in gone :
                          LedgerEntry_retrieve_response(customers', entries', u, e).status
                              = HTTP_404_NOT_FOUND
                    /\ by_customer_response(customers', entries', u, c).status
                          = HTTP_404_NOT_FOUND
                    /\ filter_by_date_response(customers', entries', u, c, NoDate, NoDate).status
                          = HTTP_404_NOT_FOUND
                    /\ \A t \in Types :
                          filter_by_type_response(customers', entries', u, c, t).status
                              = HTTP_404_NOT_FOUND
                    /\ statistics_response(customers', entries', u).body.total_entries =
                          Cardinality({e \in DOMAIN entries \ gone :
                                          customers[entries[e].customer].user = u})
    ]_vars

\* C18's case: a customer was deleted after two entries were created; one
\* entry, of another customer, is left.
C18_Witness ==
    /\ resp.op = "customer_destroy"
    /\ resp.status = HTTP_204_NO_CONTENT
    /\ nextEntryId = 3
    /\ Cardinality(DOMAIN entries) = 1
    /\ Cardinality(DOMAIN customers) = 1

\* C19: every customer and ledger-entry operation requested without a valid
\* bearer credential is answered 401, creates, modifies and deletes no
\* customer and no entry, and its answer carries nothing but the refusal.
C19_NoCredentialIs401 ==
    [][resp'.caller = AnonymousUser =>
          /\ resp'.status = HTTP_401_UNAUTHORIZED
          /\ DOMAIN resp'.body = {"detail"}
          /\ customers' = customers
          /\ entries' = entries
          /\ nextCustomerId' = nextCustomerId
          /\ nextEntryId' = nextEntryId
    ]_vars

\* C19's case: a customer create without credential was refused while the
\* store holds customers and entries.
C19_Witness ==
    /\ resp.caller = AnonymousUser
    /\ resp.op = "customer_create"
    /\ resp.status = HTTP_401_UNAUTHORIZED
    /\ DOMAIN customers # {}
    /\ DOMAIN entries # {}
    /\ nextCustomerId <= MaxCustomers

\* C20: in every reachable state every stored ledger entry has type CREDIT
\* or DEBIT; an entry create with any other type is answered 400, and so is a
\* replace of an entry of the caller with any other type (a replace of an
\* entry the caller does not have is answered 404, whatever the type); each
\* leaves the store unchanged.
C20_StoredTypesAreValid ==
    /\ [](\A e \in DOMAIN entries : entries[e].type \in Types)
    /\ [][\A u \in Users, d \in EntryBodies \ ValidEntryBodies :
              /\ \A c \in CustomerIdParams :
                    LedgerEntry_create(u, c, d.type, d.amount, d.note) =>
                        /\ resp'.status = HTTP_400_BAD_REQUEST
                        /\ entries' = entries
                        /\ customers' = customers
              /\ \A e \in EntryIds :
                    LedgerEntry_update(u, e, d.type, d.amount, d.note) =>
                        /\ resp'.status = IF /\ e \in DOMAIN entries
                                             /\ customers[entries[e].customer].user = u
                                          THEN HTTP_400_BAD_REQUEST
                                          ELSE HTTP_404_NOT_FOUND
                        /\ entries' = entries
                        /\ customers' = customers
       ]_vars

\* C20's case: a replace of an entry by its owner was refused for its type,
\* and the entry is stored with the type it had.
C20_Witness ==
    /\ resp.op = "entry_update"
    /\ resp.caller \in Users
    /\ resp.status = HTTP_400_BAD_REQUEST
    /\ resp.body = [type |-> "is not a valid choice."]
    /\ resp.arg \in DOMAIN entries
    /\ entries[resp.arg].type = "DEBIT"

----------------------------------------------------------------------------
(* The fields no request writes, the accounts, the race of create and      *)
(* delete, and the agreement of the views.                                 *)

\* C21: the entry_date of an entry is the day of its creation, whatever
\* entry_date the create request supplied, and no request changes it: a
\* replace leaves it as it was, whatever entry_date the replace supplied.
C21_EntryDateIsSetAtCreation ==
    [][/\ \A e \in DOMAIN entries' \ DOMAIN entries :
             /\ entries'[e].entry_date = today
             /\ resp'.body.entry_date = today
       /\ \A e \in DOMAIN entries \cap DOMAIN entries' :
             entries'[e].entry_date = entries[e].entry_date
       /\ (resp'.op = "entry_update" /\ resp'.status = HTTP_200_OK) =>
             resp'.body.entry_date = entries[resp'.arg].entry_date
    ]_vars

\* C21's case: on day 2 a replace that supplied entry_date = day 2 succeeded
\* on an entry created on day 1, which is still dated day 1.
C21_Witness ==
    /\ resp.op = "entry_update"
    /\ resp.status = HTTP_200_OK
    /\ "entry_date" \in DOMAIN resp.request
    /\ resp.request.entry_date = 2
    /\ today = 2
    /\ entries[resp.arg].entry_date = 1

\* the body of a request carries no name, or an empty one
NameMissingOrEmpty(body) == "name" \notin DOMAIN body \/ body.name = <<>>

\* C24: in every reachable state every stored customer has a non-empty name;
\* a customer create whose name is missing or empty is answered 400, and so
\* is a replace of a customer of the caller (a replace of a customer the
\* caller does not have is answered 404, whatever the name); each leaves the
\* store unchanged.
C24_CustomerNameIsNonEmpty ==
    /\ [](\A c \in DOMAIN customers : customers[c].name # <<>>)
    /\ [][(/\ resp'.op \in {"customer_create", "customer_update"}
            /\ NameMissingOrEmpty(resp'.request)) =>
              /\ resp'.status =
                    IF resp'.op = "customer_update"
                       /\ ~(/\ resp'.arg \in DOMAIN customers
                            /\ customers[resp'.arg].user = resp'.caller)
                    THEN HTTP_404_NOT_FOUND
                    ELSE HTTP_400_BAD_REQUEST
              /\ customers' = customers
              /\ nextCustomerId' = nextCustomerId
              /\ entries' = entries
       ]_vars

\* C24's case: a replace of a customer by its owner, sent without a name, was
\* answered 400 while a second customer could still be created.
C24_Witness ==
    /\ resp.op = "customer_update"
    /\ "name" \notin DOMAIN resp.request
    /\ resp.status = HTTP_400_BAD_REQUEST
    /\ resp.body = [name |-> "This field is required."]
    /\ resp.arg \in DOMAIN customers
    /\ customers[resp.arg].user = resp.caller

\* C26: a replace of a ledger entry changes only the type, amount and note of
\* that entry, to the values sent: its customer and its id stay, whatever the
\* body contains, a customer field included.  No request moves an entry to
\* another customer, and none changes the owner of a customer.
C26_ReplaceKeepsCustomerAndOwner ==
    [][/\ \A e \in DOMAIN entries \cap DOMAIN entries' :
             entries'[e].customer = entries[e].customer
       /\ \A c \in DOMAIN customers \cap DOMAIN customers' :
             customers'[c].user = customers[c].user
       /\ (resp'.op = "entry_update" /\ resp'.status = HTTP_200_OK) =>
             /\ DOMAIN entries' = DOMAIN entries
             /\ entries'[resp'.arg] =
                   [entries[resp'.arg] EXCEPT !.type = resp'.request.type,
                                              !.amount = resp'.request.amount,
                                              !.note = resp'.request.note]
             /\ \A e \in DOMAIN entries \ {resp'.arg} : entries'[e] = entries[e]
             /\ resp'.body.id = resp'.arg
             /\ customers' = customers
       /\ (resp'.op = "customer_update" /\ resp'.status = HTTP_200_OK) =>
             /\ DOMAIN customers' = DOMAIN customers
             /\ \A c \in DOMAIN customers \ {resp'.arg} : customers'[c] = customers[c]
             /\ entries' = entries
    ]_vars

\* C26's case: a replace whose body names another customer succeeded, and the
\* entry is still the customer's it was created for.
C26_Witness ==
    /\ resp.op = "entry_update"
    /\ resp.status = HTTP_200_OK
    /\ "customer" \in DOMAIN resp.request
    /\ resp.request.customer # entries[resp.arg].customer
    /\ resp.request.customer \in DOMAIN customers

\* C26's other case: a replace whose body names another user as the owner
\* succeeded, and the customer is still the caller's.
C26_WitnessOwner ==
    /\ resp.op = "customer_update"
    /\ resp.status = HTTP_200_OK
    /\ "user" \in DOMAIN resp.request
    /\ resp.request.user # customers[resp.arg].user

\* C22: registration rejects duplicate usernames.  No two users share a
\* username, and a registration that names the username of an existing user
\* is answered 400 with an error on the username field and creates no user.
C22_UsernamesAreUnique ==
    /\ [](\A i, j \in DOMAIN users :
             users[i].username = users[j].username => i = j)
    /\ [][(resp'.op = "register"
           /\ UsersNamed(users, resp'.request.username) # {}) =>
             /\ resp'.status = HTTP_400_BAD_REQUEST
             /\ "username" \in DOMAIN resp'.body
             /\ users' = users
       ]_vars

\* C22's case: a registration with valid passwords that names a registered
\* username, under another e-mail address, was refused.
C22_Witness ==
    /\ resp.op = "register"
    /\ resp.status = HTTP_400_BAD_REQUEST
    /\ DOMAIN resp.body = {"username"}
    /\ resp.request.password = resp.request.password_confirm
    /\ \E i \in DOMAIN users :
          /\ users[i].username = resp.request.username
          /\ users[i].email # resp.request.email

\* the User table without the users of this name
WithoutUser(us, username) ==
    [i \in DOMAIN us \ UsersNamed(us, username) |-> us[i]]

\* C23: a login that fails is answered the same, whether the username is
\* unknown or registered with another password: the response is the one the
\* store without that user gives, it is a 400 with the one generic message
\* when both fields are filled in, and it carries no token.
C23_FailedLoginDoesNotTellIfRegistered ==
    /\ \A data \in LoginBodies :
          login_response(users, data).status # HTTP_200_OK =>
            /\ login_response(users, data)
                 = login_response(WithoutUser(users, data.username), data)
            /\ login_response(users, data).status = HTTP_400_BAD_REQUEST
            /\ data.username # "" =>
                  login_response(users, data).body
                    = [non_field_errors |-> <<"Invalid username or password">>]
    /\ (resp.op = "login" /\ resp.status # HTTP_200_OK) =>
          /\ resp = Sent(resp.request, login_response(users, resp.request))
          /\ DOMAIN resp.body \cap {"access", "refresh", "user"} = {}

\* C23's case: a login with the wrong password of a registered user failed,
\* and another username is not registered.
C23_Witness ==
    /\ resp.op = "login"
    /\ resp.status = HTTP_400_BAD_REQUEST
    /\ UsersNamed(users, resp.request.username) # {}
    /\ \E username \in Usernames \ {""} : UsersNamed(users, username) = {}

\* C25: however the creation of an entry (its lookup of the customer, then
\* its save) interleaves with the deletion of that customer, every stored
\* entry is an entry of a customer that exists.
C25_EveryEntryHasItsCustomer ==
    \A e \in DOMAIN entries : entries[e].customer \in DOMAIN customers

\* C25's case: the customer was deleted between the lookup and the save of a
\* creation, and the save was refused.
C25_Witness ==
    /\ resp.op = "entry_create"
    /\ resp.status = HTTP_500_INTERNAL_SERVER_ERROR
    /\ resp.arg \notin DOMAIN customers
    /\ req.create = Idle

\* C25's other case: an entry was saved between the collection and the
\* deletes of a deletion, and the deletion was rolled back.
C25_WitnessRolledBack ==
    /\ resp.op = "customer_destroy"
    /\ resp.status = HTTP_500_INTERNAL_SERVER_ERROR
    /\ resp.arg \in DOMAIN customers
    /\ ledger_entries(entries, resp.arg) # {}

\* the bodies of the views of customer c that its owner is given
TypeView(c, type) ==
    filter_by_type_response(customers, entries, customers[c].user, c, type).body
SummaryView(c) == summary_response(customers, entries, customers[c].user, c).body
CustomerView(c) == by_customer_response(customers, entries, customers[c].user, c).body
DateView(c) ==
    filter_by_date_response(customers, entries, customers[c].user, c, NoDate, NoDate).body

\* C27: for every customer, the views its owner is given agree.  The
\* entries_count of filter_by_type for CREDIT and for DEBIT add up to the
\* entries_count of the summary and to the number of entries of by_customer;
\* the total_amount of filter_by_type for CREDIT is the summary's total_credit
\* and for DEBIT its total_debit (as the numbers a client reads); and
\* filter_by_date without dates returns the entries by_customer returns.
C27_ViewsAgree ==
    \A c \in DOMAIN customers :
        /\ TypeView(c, "CREDIT").entries_count + TypeView(c, "DEBIT").entries_count
             = SummaryView(c).entries_count
        /\ SummaryView(c).entries_count = Len(CustomerView(c).entries)
        /\ TypeView(c, "CREDIT").total_amount = float(SummaryView(c).total_credit)
        /\ TypeView(c, "DEBIT").total_amount = float(SummaryView(c).total_debit)
        /\ DateView(c).entries = CustomerView(c).entries

\* The part of C27 that is about the entries and their number.
C27_ViewsAgreeOnEntries ==
    \A c \in DOMAIN customers :
        /\ TypeView(c, "CREDIT").entries_count + TypeView(c, "DEBIT").entries_count
             = SummaryView(c).entries_count
        /\ SummaryView(c).entries_count = Len(CustomerView(c).entries)
        /\ DateView(c).entries = CustomerView(c).entries
        /\ DateView(c).total_entries = SummaryView(c).entries_count
        /\ CustomerView(c).summary.total_credit = SummaryView(c).total_credit
        /\ CustomerView(c).summary.total_debit = SummaryView(c).total_debit

====
